---- MODULE Spec2Model ----
(***************************************************************************)
(* ProtoScribe: the compliance checker (services/compliance_checker.py),   *)
(* the document processor (services/document_processor.py), the LLM        *)
(* analyzers and the comprehensive analysis endpoint (api/analysis.py).     *)
(*                                                                         *)
(* Text is modelled as TLA+ strings, character by character: lower-casing, *)
(* substring search, the word regex and the context window are computed on *)
(* the characters, as str.lower, `in`, str.find, re.findall and slicing do. *)
(* A Python float is modelled as an exact fraction num/den in lowest terms *)
(* together with ulp, the sign of (the IEEE-754 double the code holds      *)
(* minus the double nearest to num/den).  Python dicts are sequences of    *)
(* entries with distinct keys, in insertion order.  None is <<>> and a     *)
(* present value v is <<v>>.                                               *)
(***************************************************************************)
EXTENDS Integers, Sequences, FiniteSets, TLC

VARIABLES
    consort_guidelines,  \* ComplianceChecker.consort_guidelines["items"]
    spirit_guidelines,   \* ComplianceChecker.spirit_guidelines["items"]
    hashseed,            \* the process's string-hash seed: fixes the order of list(set(..))
    call,                \* the call in progress or just made: its arguments and its result
    settings,            \* core.config.settings: the API keys set, the provider packages
    MOCK_PROTOCOLS,      \* api.analysis.MOCK_PROTOCOLS: the protocols the analysis finds
    tasks,               \* the four tasks of asyncio.gather in analyze_protocol_comprehensive
    upstream_calls,      \* the calls sent to the LLM provider during the call in progress
    MOCK_PROTOCOLS_STORE, \* api/protocols.py: the protocols module's store
    requests,            \* the requests to the protocols and compliance endpoints in flight
    uploads              \* the files in settings.UPLOAD_DIR

vars == <<consort_guidelines, spirit_guidelines, hashseed, call,
          settings, MOCK_PROTOCOLS, tasks, upstream_calls,
          MOCK_PROTOCOLS_STORE, requests, uploads>>

\* the state of the protocols API and of the upload directory
api == <<MOCK_PROTOCOLS_STORE, requests, uploads>>

(***************************************************************************)
(* Characters and strings.                                                 *)
(***************************************************************************)
UpperCase == "ABCDEFGHIJKLMNOPQRSTUVWXYZ"
LowerCase == "abcdefghijklmnopqrstuvwxyz"
Digits == "0123456789"
Whitespace == {" ", "\n", "\t"}

NONE == <<>>
Some(v) == <<v>>

Chr(s, i) == SubSeq(s, i, i)

Max(a, b) == IF a >= b THEN a ELSE b
Min(a, b) == IF a <= b THEN a ELSE b

CharsOf(alphabet) == {Chr(alphabet, i) : i \in 1..Len(alphabet)}
UpperSet == CharsOf(UpperCase)
LetterSet == CharsOf(UpperCase) \cup CharsOf(LowerCase)
WordCharSet == LetterSet \cup CharsOf(Digits) \cup {"_"}

LowerOf == [c \in UpperSet |->
              Chr(LowerCase, CHOOSE i \in 1..26 : Chr(UpperCase, i) = c)]

\* str.lower on one ASCII character
LowerChar(c) == IF c \in UpperSet THEN LowerOf[c] ELSE c

\* str.lower, character by character (the string is halved to keep the
\* evaluation shallow)
RECURSIVE Lower(_)
Lower(s) ==
    IF Len(s) = 0 THEN ""
    ELSE IF Len(s) = 1 THEN LowerChar(s)
    ELSE LET h == Len(s) \div 2
         IN  Lower(SubSeq(s, 1, h)) \o Lower(SubSeq(s, h + 1, Len(s)))

\* `sub in s`
Contains(s, sub) ==
    \E i \in 0..(Len(s) - Len(sub)) : SubSeq(s, i + 1, i + Len(sub)) = sub

\* s.find(sub): the 0-based index of the first occurrence, -1 when there is none
Find(s, sub) ==
    IF Contains(s, sub)
    THEN CHOOSE i \in 0..(Len(s) - Len(sub)) :
            /\ SubSeq(s, i + 1, i + Len(sub)) = sub
            /\ \A j \in 0..(i - 1) : SubSeq(s, j + 1, j + Len(sub)) # sub
    ELSE -1

\* s[start:end] for 0 <= start, end
Slice(s, start, end) == SubSeq(s, start + 1, Min(end, Len(s)))

\* str.strip
Strip(s) ==
    LET keep == {i \in 1..Len(s) : Chr(s, i) \notin Whitespace}
    IN  IF keep = {} THEN ""
        ELSE SubSeq(s, CHOOSE i \in keep : \A j \in keep : i <= j,
                       CHOOSE i \in keep : \A j \in keep : i >= j)

(***************************************************************************)
(* Floats.                                                                 *)
(***************************************************************************)
RECURSIVE GCD(_, _)
GCD(a, b) == IF b = 0 THEN a ELSE GCD(b, a % b)

\* the double nearest to a/b  (b > 0)
Ratio(a, b) ==
    LET g == IF a = 0 THEN b ELSE GCD(a, b)
    IN  [num |-> a \div g, den |-> b \div g, ulp |-> 0]

ZERO == Ratio(0, 1)

\* the multiplication by 0.7 left out
Times07_NoDamping(c) == c

\* c * 0.7 in IEEE-754 double arithmetic.  For a quotient k/n of two small
\* counts the product is the double nearest to 7k/10n, except for k/n = 4/7,
\* where (4/7) * 0.7 evaluates to 0.39999999999999997, one ulp below 0.4.
Times07(c) ==
    LET r == Ratio(7 * c.num, 10 * c.den)
    IN  [r EXCEPT !.ulp = IF c.num = 4 /\ c.den = 7 THEN -1 ELSE c.ulp]

\* c >= a/b, the comparison of the double c with the literal a/b
GE(c, a, b) ==
    \/ c.num * b > a * c.den
    \/ c.num * b = a * c.den /\ c.ulp >= 0

(***************************************************************************)
(* Program constants.                                                      *)
(***************************************************************************)
CONTEXT_CHARS == 100      \* characters of context kept on each side of a match
FOUND_TEXT_MAX == 200     \* found_text longer than this is cut and ends in "..."

(***************************************************************************)
(* ComplianceChecker._search_for_keywords                                  *)
(***************************************************************************)
Falsy(opt) == opt = NONE \/ opt = Some("")

\* the loop left at the first keyword that is not in the text
RECURSIVE SearchLoop_BreakOnMiss(_, _, _, _, _, _)
SearchLoop_BreakOnMiss(text, text_lower, keywords, i, found_keywords, found_text) ==
    IF i > Len(keywords) \/ ~Contains(text_lower, Lower(keywords[i]))
    THEN [found_keywords |-> found_keywords, found_text |-> found_text]
    ELSE LET start_idx == Find(text_lower, Lower(keywords[i]))
             start == Max(0, start_idx - CONTEXT_CHARS)
             end == Min(Len(text), start_idx + Len(keywords[i]) + CONTEXT_CHARS)
         IN  SearchLoop_BreakOnMiss(text, text_lower, keywords, i + 1,
                                    Append(found_keywords, keywords[i]),
                                    IF Falsy(found_text)
                                    THEN Some(Strip(Slice(text, start, end)))
                                    ELSE found_text)

RECURSIVE SearchLoop(_, _, _, _, _, _)
SearchLoop(text, text_lower, keywords, i, found_keywords, found_text) ==
    IF i > Len(keywords)
    THEN [found_keywords |-> found_keywords, found_text |-> found_text]
    ELSE LET keyword == keywords[i]
         IN  IF Contains(text_lower, Lower(keyword))
             THEN LET start_idx == Find(text_lower, Lower(keyword))
                      start == Max(0, start_idx - CONTEXT_CHARS)
                      end == Min(Len(text), start_idx + Len(keyword) + CONTEXT_CHARS)
                  IN  SearchLoop(text, text_lower, keywords, i + 1,
                                 Append(found_keywords, keyword),
                                 IF Falsy(found_text)
                                 THEN Some(Strip(Slice(text, start, end)))
                                 ELSE found_text)
             ELSE SearchLoop(text, text_lower, keywords, i + 1,
                             found_keywords, found_text)

\* the text searched as written, not lower-cased
SearchForKeywords_TextNotLowered(text, keywords) ==
    LET loop == SearchLoop(text, text, keywords, 1, <<>>, NONE)
    IN  [found |-> Len(loop.found_keywords) > 0,
         confidence |-> IF Len(keywords) > 0
                        THEN Ratio(Len(loop.found_keywords), Len(keywords))
                        ELSE ZERO,
         text |-> loop.found_text,
         keywords_found |-> loop.found_keywords]

\* the distinct found keywords counted against all the keywords
SearchForKeywords_CountDistinct(text, keywords) ==
    LET loop == SearchLoop(text, Lower(text), keywords, 1, <<>>, NONE)
        distinct == {loop.found_keywords[i] : i \in 1..Len(loop.found_keywords)}
    IN  [found |-> Len(loop.found_keywords) > 0,
         confidence |-> IF Len(keywords) > 0
                        THEN Ratio(Cardinality(distinct), Len(keywords))
                        ELSE ZERO,
         text |-> loop.found_text,
         keywords_found |-> loop.found_keywords]

\* the confidence and the returned dict, from what the loop found
SearchResult(loop, keywords) ==
    [found |-> Len(loop.found_keywords) > 0,
     confidence |-> IF Len(keywords) > 0
                    THEN Ratio(Len(loop.found_keywords), Len(keywords))
                    ELSE ZERO,
     text |-> loop.found_text,
     keywords_found |-> loop.found_keywords]

SearchForKeywords(text, keywords) ==
    SearchResult(SearchLoop(text, Lower(text), keywords, 1, <<>>, NONE), keywords)

(***************************************************************************)
(* ComplianceChecker._extract_keywords                                     *)
(***************************************************************************)
\* keyword_patterns: each regular expression is an alternation of literals,
\* given here as the literals re.search looks for ("randomis?ed" is
\* randomised|randomized, "adverse events?" matches where "adverse event" does).
keyword_patterns == <<
    [alts |-> {"randomised", "randomized", "randomization"},
     words |-> <<"random", "randomized", "randomisation">>],
    [alts |-> {"blind", "blinding", "masking"},
     words |-> <<"blind", "blinding", "masked", "masking">>],
    [alts |-> {"sample size", "power"},
     words |-> <<"sample size", "power", "participants", "subjects">>],
    [alts |-> {"primary outcome", "endpoint"},
     words |-> <<"primary outcome", "primary endpoint", "main outcome">>],
    [alts |-> {"secondary outcome"},
     words |-> <<"secondary outcome", "secondary endpoint">>],
    [alts |-> {"inclusion criteria", "eligibility"},
     words |-> <<"inclusion", "eligible", "eligibility criteria">>],
    [alts |-> {"exclusion criteria"},
     words |-> <<"exclusion", "excluded">>],
    [alts |-> {"statistical analysis"},
     words |-> <<"statistical", "analysis", "statistics">>],
    [alts |-> {"adverse event"},
     words |-> <<"adverse", "side effect", "safety">>],
    [alts |-> {"consent", "informed consent"},
     words |-> <<"consent", "informed consent">>],
    [alts |-> {"ethics", "ethical"},
     words |-> <<"ethics", "ethical", "IRB", "ethics committee">>] >>

STOPWORDS == {"with", "that", "this", "they", "were", "been"}

\* re.search(pattern, s) is not None
ReSearch(pattern, s) == \E lit \in pattern.alts : Contains(s, lit)

\* [a-zA-Z]
IsLetter(c) == c \in LetterSet
\* \w
IsWordChar(c) == c \in WordCharSet

\* \b between the characters at p and p+1 (p = 0 is the start, p = Len(s) the end)
WordBoundary(s, p) ==
    LET before == p >= 1 /\ IsWordChar(Chr(s, p))
        after == p < Len(s) /\ IsWordChar(Chr(s, p + 1))
    IN  before # after

\* the number of letters [a-zA-Z] from position i on
RECURSIVE LetterRun(_, _)
LetterRun(s, i) ==
    IF i <= Len(s) /\ IsLetter(Chr(s, i)) THEN 1 + LetterRun(s, i + 1) ELSE 0

\* the word pattern with {5,} for {4,}
WordMatchLen_MinFive(s, i) ==
    IF ~WordBoundary(s, i - 1) THEN 0
    ELSE LET ends == {n \in 5..LetterRun(s, i) : WordBoundary(s, i - 1 + n)}
         IN  IF ends # {} THEN CHOOSE n \in ends : \A m \in ends : m <= n ELSE 0

\* the length of the match of \b[a-zA-Z]{4,}\b that starts at i; 0 when none does.
\* {4,} is greedy: the longest run that ends at a word boundary.
WordMatchLen(s, i) ==
    IF ~WordBoundary(s, i - 1) THEN 0
    ELSE LET ends == {n \in 4..LetterRun(s, i) : WordBoundary(s, i - 1 + n)}
         IN  IF ends # {} THEN CHOOSE n \in ends : \A m \in ends : m <= n ELSE 0

\* re.findall(r'\b[a-zA-Z]{4,}\b', s): the leftmost match from position i on,
\* then the matches after its end; starts holds the positions a match starts at
RECURSIVE FindWordsFrom(_, _, _)
FindWordsFrom(s, i, starts) ==
    LET ahead == {j \in starts : j >= i}
    IN  IF ahead = {} THEN <<>>
        ELSE LET j == CHOOSE a \in ahead : \A b \in ahead : a <= b
                 n == WordMatchLen(s, j)
             IN  <<SubSeq(s, j, j + n - 1)>> \o FindWordsFrom(s, j + n, starts)

FindWords(s) == FindWordsFrom(s, 1, {j \in 1..Len(s) : WordMatchLen(s, j) > 0})

RECURSIVE PatternWords(_, _)
PatternWords(description_lower, i) ==
    IF i > Len(keyword_patterns) THEN <<>>
    ELSE (IF ReSearch(keyword_patterns[i], description_lower)
          THEN keyword_patterns[i].words ELSE <<>>)
         \o PatternWords(description_lower, i + 1)

InSeq(x, seq) == \E i \in 1..Len(seq) : seq[i] = x

RECURSIVE Dedup(_)
Dedup(seq) ==
    IF seq = <<>> THEN <<>>
    ELSE LET front == Dedup(SubSeq(seq, 1, Len(seq) - 1))
             last == seq[Len(seq)]
         IN  IF InSeq(last, front) THEN front ELSE Append(front, last)

Rotate(seq, k) ==
    IF seq = <<>> THEN <<>>
    ELSE LET r == k % Len(seq)
         IN  SubSeq(seq, r + 1, Len(seq)) \o SubSeq(seq, 1, r)

\* list(set(keywords)): the distinct keywords, in the order the process's
\* string hashing gives them (the same set always in the same order)
ListOfSet(keywords) == Rotate(Dedup(keywords), hashseed)

\* the keywords before list(set(..)): rule words, then the description's own words
KeywordCandidates(description) ==
    LET description_lower == Lower(description)
        important_words == FindWords(description_lower)
    IN  PatternWords(description_lower, 1)
        \o SelectSeq(important_words, LAMBDA word : word \notin STOPWORDS)

ExtractKeywords(description) == ListOfSet(KeywordCandidates(description))

(***************************************************************************)
(* ComplianceChecker._find_relevant_sections                               *)
(* A sections dict is a sequence of [name, content] entries, names         *)
(* distinct, in insertion order.                                           *)
(***************************************************************************)
section_patterns == <<
    [key |-> "method", patterns |-> <<"method", "design", "procedure">>],
    [key |-> "participant",
     patterns |-> <<"participant", "subject", "population", "eligibility">>],
    [key |-> "outcome", patterns |-> <<"outcome", "endpoint", "measure">>],
    [key |-> "statistical", patterns |-> <<"statistical", "analysis", "sample">>],
    [key |-> "abstract", patterns |-> <<"abstract", "summary">>],
    [key |-> "introduction", patterns |-> <<"introduction", "background">>],
    [key |-> "ethics", patterns |-> <<"ethics", "ethical", "consent">>] >>

\* any(p in s for p in patterns)
AnyIn(patterns, s) == \E i \in 1..Len(patterns) : Contains(s, patterns[i])

HasKey(dict, name) == \E i \in 1..Len(dict) : dict[i].name = name

\* dict[name] = content: a new key goes last, an old key keeps its place
DictSet(dict, name, content) ==
    IF HasKey(dict, name)
    THEN [i \in 1..Len(dict) |->
            IF dict[i].name = name THEN [name |-> name, content |-> content]
            ELSE dict[i]]
    ELSE Append(dict, [name |-> name, content |-> content])

\* the direct match on the label as written, not lower-cased
RECURSIVE DirectMatch_CaseSensitive(_, _, _, _)
DirectMatch_CaseSensitive(sections, section_hint, i, relevant) ==
    IF i > Len(sections) THEN relevant
    ELSE DirectMatch_CaseSensitive(sections, section_hint, i + 1,
            IF Contains(sections[i].name, section_hint)
            THEN DictSet(relevant, sections[i].name, sections[i].content)
            ELSE relevant)

\* the loop "for section_name, content in sections.items()" of the direct match
RECURSIVE DirectMatch(_, _, _, _)
DirectMatch(sections, section_hint, i, relevant) ==
    IF i > Len(sections) THEN relevant
    ELSE DirectMatch(sections, section_hint, i + 1,
            IF Contains(Lower(sections[i].name), section_hint)
            THEN DictSet(relevant, sections[i].name, sections[i].content)
            ELSE relevant)

\* the inner loop of the pattern match, for one bucket
RECURSIVE BucketMatch(_, _, _, _)
BucketMatch(sections, patterns, i, relevant) ==
    IF i > Len(sections) THEN relevant
    ELSE BucketMatch(sections, patterns, i + 1,
            IF AnyIn(patterns, Lower(sections[i].name))
            THEN DictSet(relevant, sections[i].name, sections[i].content)
            ELSE relevant)

\* the loop over section_patterns
RECURSIVE PatternMatch(_, _, _, _)
PatternMatch(sections, section_hint, b, relevant) ==
    IF b > Len(section_patterns) THEN relevant
    ELSE PatternMatch(sections, section_hint, b + 1,
            IF AnyIn(section_patterns[b].patterns, section_hint)
            THEN BucketMatch(sections, section_patterns[b].patterns, 1, relevant)
            ELSE relevant)

\* "no match" meaning "no relevant sections": the fallback left out
FindRelevantSections_NoFallback(sections, section_hint) ==
    PatternMatch(sections, section_hint, 1,
                 DirectMatch(sections, section_hint, 1, <<>>))

FindRelevantSections(sections, section_hint) ==
    LET relevant ==
            PatternMatch(sections, section_hint, 1,
                         DirectMatch(sections, section_hint, 1, <<>>))
    IN  IF relevant # <<>> THEN relevant ELSE sections

(***************************************************************************)
(* ComplianceChecker._check_item                                           *)
(* An item is [id, section, description]; section is "" when the item has  *)
(* no "section" key (item.get("section", "")).                             *)
(***************************************************************************)
ISSUE_WARNING == "Item may be present but could be more explicit"
ISSUE_FAIL == "Item not found or not adequately addressed"

\* the loop without its break: the last section that contains a keyword wins
RECURSIVE SectionScan_NoBreak(_, _, _)
SectionScan_NoBreak(relevant_sections, keywords, i) ==
    IF i > Len(relevant_sections)
    THEN [found_text |-> NONE, confidence |-> ZERO]
    ELSE LET result == SearchForKeywords(relevant_sections[i].content, keywords)
             rest == SectionScan_NoBreak(relevant_sections, keywords, i + 1)
         IN  IF result.found /\ rest.found_text = NONE
             THEN [found_text |-> result.text, confidence |-> result.confidence]
             ELSE rest

\* the loop over relevant_sections, with its break
RECURSIVE SectionScan(_, _, _)
SectionScan(relevant_sections, keywords, i) ==
    IF i > Len(relevant_sections)
    THEN [found_text |-> NONE, confidence |-> ZERO]
    ELSE LET result == SearchForKeywords(relevant_sections[i].content, keywords)
         IN  IF result.found
             THEN [found_text |-> result.text, confidence |-> result.confidence]
             ELSE SectionScan(relevant_sections, keywords, i + 1)

\* "> 0.8" for ">= 0.8"
StatusOf_StrictPass(confidence) ==
    IF GE(confidence, 4, 5) /\ ~(confidence.num * 5 = 4 * confidence.den) THEN "pass"
    ELSE IF GE(confidence, 2, 5) THEN "warning"
    ELSE "fail"

\* ">= 0.0" for ">= 0.4"
StatusOf_LowThreshold(confidence) ==
    IF GE(confidence, 4, 5) THEN "pass"
    ELSE IF GE(confidence, 0, 5) THEN "warning"
    ELSE "fail"

\* confidence >= 0.8 / >= 0.4 / else
StatusOf(confidence) ==
    IF GE(confidence, 4, 5) THEN "pass"
    ELSE IF GE(confidence, 2, 5) THEN "warning"
    ELSE "fail"

\* the whole-content search trusted like a section search
ContentSearch_Undamped(scan, general) ==
    IF Falsy(scan.found_text) /\ general.found
    THEN [found_text |-> general.text, confidence |-> general.confidence]
    ELSE scan

\* "if not found_text": the search of the whole content, damped
ContentSearch(scan, general) ==
    IF Falsy(scan.found_text) /\ general.found
    THEN [found_text |-> general.text, confidence |-> Times07(general.confidence)]
    ELSE scan

\* the status, the issue and the returned dict
ItemResult(item, final) ==
    LET status == StatusOf(final.confidence)
        issue == IF status = "warning" THEN ISSUE_WARNING ELSE ISSUE_FAIL
    IN  [item_id |-> item.id,
         description |-> item.description,
         status |-> status,
         confidence |-> final.confidence,
         found_text |->
            IF ~Falsy(final.found_text) /\ Len(final.found_text[1]) > FOUND_TEXT_MAX
            THEN Some(SubSeq(final.found_text[1], 1, FOUND_TEXT_MAX) \o "...")
            ELSE final.found_text,
         issue |-> IF status # "pass" THEN Some(issue) ELSE NONE]

\* the two searches, for the keywords extracted
CheckItemKeywords(content, sections, item, keywords) ==
    ItemResult(item,
        ContentSearch(
            SectionScan(FindRelevantSections(sections, Lower(item.section)),
                        keywords, 1),
            SearchForKeywords(content, keywords)))

CheckItem(content, sections, item) ==
    CheckItemKeywords(content, sections, item, ExtractKeywords(item.description))

(***************************************************************************)
(* ComplianceChecker._check_guideline_compliance and check_compliance      *)
(* A score is held in tenths of a percent: 1000 is 100.0.                  *)
(***************************************************************************)
\* the score cut to a tenth, not rounded
Round1_Truncate(passed, total) == (1000 * passed) \div total

\* round(passed / total * 100, 1) for total > 0: to the nearest tenth, a tie
\* to the even tenth (for total < 80 the double passed/total*100 is a tie
\* exactly when the quotient is)
Round1(passed, total) ==
    LET q == (1000 * passed) \div total
        r == (1000 * passed) % total
    IN  IF 2 * r > total THEN q + 1
        ELSE IF 2 * r = total THEN q + (q % 2)
        ELSE q

PassedCount(results) ==
    Cardinality({i \in 1..Len(results) : results[i].status = "pass"})

\* one turn of the loop over the items: the result appended, a failed item
\* and a warning recorded
LoopStep(acc, item, check_result, guideline_type) ==
    [results |-> Append(acc.results, check_result),
     failed_items |->
        IF check_result.status = "fail"
        THEN Append(acc.failed_items,
                    [item_id |-> item.id, description |-> item.description,
                     section |-> item.section, guideline |-> guideline_type])
        ELSE acc.failed_items,
     warnings |->
        IF check_result.status = "warning"
        THEN Append(acc.warnings,
                    [item_id |-> item.id, description |-> item.description,
                     issue |-> check_result.issue[1],
                     guideline |-> guideline_type])
        ELSE acc.warnings]

RECURSIVE GuidelineLoop(_, _, _, _, _)
GuidelineLoop(content, sections, items, guideline_type, i) ==
    IF i = 0
    THEN [results |-> <<>>, failed_items |-> <<>>, warnings |-> <<>>]
    ELSE LoopStep(GuidelineLoop(content, sections, items, guideline_type, i - 1),
                  items[i], CheckItem(content, sections, items[i]), guideline_type)

\* the score and the returned dict
GuidelineResult(loop, guideline_type) ==
    [guideline |-> guideline_type,
     score |-> IF loop.results # <<>>
               THEN Round1(PassedCount(loop.results), Len(loop.results)) ELSE 0,
     items |-> loop.results,
     failed_items |-> loop.failed_items,
     warnings |-> loop.warnings]

CheckGuidelineCompliance(content, sections, items, guideline_type) ==
    GuidelineResult(
        GuidelineLoop(content, sections, items, guideline_type, Len(items)),
        guideline_type)

\* the overall score as the plain average of the two guideline scores
OverallResult_PlainAverage(consort_results, spirit_results) ==
    LET total_items == Len(consort_results.items) + Len(spirit_results.items)
        passed_items == PassedCount(consort_results.items)
                        + PassedCount(spirit_results.items)
    IN  [score |-> IF total_items > 0
                   THEN Round1(consort_results.score + spirit_results.score, 2000)
                   ELSE 0,
         consort_score |-> consort_results.score,
         spirit_score |-> spirit_results.score,
         total_items |-> total_items,
         passed_items |-> passed_items,
         failed_items |-> consort_results.failed_items \o spirit_results.failed_items,
         warnings |-> consort_results.warnings \o spirit_results.warnings,
         consort_details |-> consort_results,
         spirit_details |-> spirit_results]

\* the SPIRIT entries put before the CONSORT entries
OverallResult_SpiritFirst(consort_results, spirit_results) ==
    LET total_items == Len(consort_results.items) + Len(spirit_results.items)
        passed_items == PassedCount(consort_results.items)
                        + PassedCount(spirit_results.items)
    IN  [score |-> IF total_items > 0 THEN Round1(passed_items, total_items) ELSE 0,
         consort_score |-> consort_results.score,
         spirit_score |-> spirit_results.score,
         total_items |-> total_items,
         passed_items |-> passed_items,
         failed_items |-> spirit_results.failed_items \o consort_results.failed_items,
         warnings |-> spirit_results.warnings \o consort_results.warnings,
         consort_details |-> consort_results,
         spirit_details |-> spirit_results]

\* the overall score and the returned dict
OverallResult(consort_results, spirit_results) ==
    LET total_items == Len(consort_results.items) + Len(spirit_results.items)
        passed_items == PassedCount(consort_results.items)
                        + PassedCount(spirit_results.items)
    IN  [score |-> IF total_items > 0 THEN Round1(passed_items, total_items) ELSE 0,
         consort_score |-> consort_results.score,
         spirit_score |-> spirit_results.score,
         total_items |-> total_items,
         passed_items |-> passed_items,
         failed_items |-> consort_results.failed_items \o spirit_results.failed_items,
         warnings |-> consort_results.warnings \o spirit_results.warnings,
         consort_details |-> consort_results,
         spirit_details |-> spirit_results]

\* "if sections is None: sections = {"content": content}"
SectionsOrContent(content, sections_arg) ==
    IF sections_arg = NONE
    THEN <<[name |-> "content", content |-> content]>>
    ELSE sections_arg[1]

\* sections is NONE (the default argument) or Some(dict)
CheckCompliance(content, sections_arg) ==
    OverallResult(
        CheckGuidelineCompliance(content, SectionsOrContent(content, sections_arg),
                                 consort_guidelines, "CONSORT"),
        CheckGuidelineCompliance(content, SectionsOrContent(content, sections_arg),
                                 spirit_guidelines, "SPIRIT"))

(***************************************************************************)
(* The inputs the model draws from.                                        *)
(***************************************************************************)
NumSeeds == 2       \* hash seeds tried
MaxItems == 4       \* longest checklist a guideline file holds
MaxSections == 3    \* most sections of a SectionMap given to the matcher alone

Item(id, section, description) ==
    [id |-> id, section |-> section, description |-> description]

\* _get_default_consort, followed by items a consort.json may hold instead
CONSORT_ITEMS == <<
    Item("1a", "Title and abstract",
         "Identification as a randomised trial in the title"),
    Item("1b", "Title and abstract",
         "Structured summary of trial design, methods, results, and conclusions"),
    Item("2a", "Introduction",
         "Scientific background and explanation of rationale"),
    Item("2b", "Introduction", "Specific objectives or hypotheses"),
    Item("24", "Ethics", "Ethics approval"),
    Item("3a", "Methods", "Trial design With allocation ratio") >>

\* _get_default_spirit, followed by items a spirit.json may hold instead
SPIRIT_ITEMS == <<
    Item("1", "Administrative information",
         "Descriptive title identifying the study design, population, interventions"),
    Item("2a", "Administrative information", "Trial identifier and registry name"),
    Item("3", "Administrative information", "Protocol version and date"),
    Item("7", "", "Aim"),
    Item("26a", "Ethics", "Informed consent") >>

Prefix(seq, n) == SubSeq(seq, 1, Min(n, Len(seq)))

ConsortFiles == {Prefix(CONSORT_ITEMS, n) : n \in 0..MaxItems}
SpiritFiles == {Prefix(SPIRIT_ITEMS, n) : n \in 0..MaxItems}

ItemPool ==
    {CONSORT_ITEMS[i] : i \in 1..Len(CONSORT_ITEMS)}
    \cup {SPIRIT_ITEMS[i] : i \in 1..Len(SPIRIT_ITEMS)}

T_TITLE == "A Randomized Trial: Title Page"
T_FULL_1A ==
    "Identification as a randomised trial in the title. Randomisation: randomized."
T_INTRO ==
    "Scientific background and explanation of rationale. Specific objectives or hypotheses."
T_ADMIN ==
    "Protocol version 2 and date.\nTrial identifier and registry name.\nDescriptive title identifying the study design, population, interventions."
T_ETHICS4 == "Ethical approval by the Ethics Committee"
T_ETHICS2 == "  Approval and ETHICS\n"
T_NOTHING == "zzz 123"

\* a protocol that addresses every built-in item in the item's own words
T_ALL ==
    "Identification as a randomised trial in the title (randomisation: randomized).\n"
    \o "Structured summary of trial design, methods, results, and conclusions.\n"
    \o T_INTRO \o "\n" \o T_ADMIN \o "\nAim"

Texts == {"", T_TITLE, T_FULL_1A, T_INTRO, T_ADMIN, T_ETHICS4, T_ETHICS2, T_NOTHING}

\* contents and SectionMaps given to check_compliance
ComplianceTexts == {T_NOTHING, T_TITLE, T_ADMIN, T_ALL}

Section(name, content) == [name |-> name, content |-> content]

\* SectionMaps given to check_compliance and _check_item
SectionMaps == {
    <<>>,
    <<Section("Title", T_TITLE)>>,
    <<Section("Title", T_FULL_1A), Section("Introduction", T_INTRO),
      Section("Administrative Information", T_ADMIN)>>,
    <<Section("Abstract", T_TITLE), Section("Executive Summary", T_FULL_1A)>>,
    <<Section("Ethics", T_ETHICS4), Section("Methods", T_NOTHING)>>,
    <<Section("Ethical Considerations", T_ETHICS2)>>,
    <<Section("Study Design", T_NOTHING), Section("Methods", T_ADMIN)>> }

ComplianceMaps == {
    <<>>,
    <<Section("Abstract", T_FULL_1A)>>,
    <<Section("Title", T_FULL_1A), Section("Introduction", T_INTRO),
      Section("Administrative Information", T_ADMIN)>>,
    <<Section("Notes", T_NOTHING)>> }

SectionNames == {"Title", "Abstract", "Methods", "Study Design", "INTRODUCTION"}

\* all SectionMaps of at most n sections over SectionNames, each section's
\* body naming its section
RECURSIVE NameMaps(_)
NameMaps(n) ==
    IF n = 0 THEN {<<>>}
    ELSE LET shorter == NameMaps(n - 1)
         IN  shorter \cup
             {Append(m, Section(name, "Body of " \o name)) :
                m \in {x \in shorter : Len(x) = n - 1},
                name \in SectionNames}

HintedMaps == {m \in NameMaps(MaxSections) :
                \A i, j \in 1..Len(m) : i # j => m[i].name # m[j].name}

Hints == {"", "method", "methods", "title", "title and abstract", "introduction",
          "ethics", "study design", "Methods", "results"}

Descriptions ==
    {it.description : it \in ItemPool}
    \cup {"", "Aims", "With", "that THIS been", "Trial", "rand0mised trial",
          "test_case", "abc defg", "Blinding", "sample size",
          "Date that the Trial ends with"}

KeywordLists == {
    <<>>, <<"trial">>, <<"Trial", "TITLE">>, <<"trial", "trial">>,
    <<"randomized", "trial", "placebo">>, <<"zebra">>, <<"">>,
    <<"ethics", "ethical", "IRB", "ethics committee", "approval">>,
    <<"random", "randomized", "randomisation", "identification",
      "randomised", "trial", "title">> }

(***************************************************************************)
(* The LLM layer (services/advanced_llm_analyzer.py, services/             *)
(* llm_analyzer.py) and the comprehensive analysis endpoint                *)
(* (api/analysis.py).                                                      *)
(*                                                                         *)
(* A Python value that an upstream response can decode to is a record      *)
(* tagged with its type; a number is counted in hundredths.  A dict is a       *)
(* sequence of entries with distinct keys.  The upstream service is the    *)
(* environment: each call ends in one of the outcomes of Outcomes.         *)
(***************************************************************************)
PyNone == [t |-> "none"]
PyNum(hundredths) == [t |-> "num", n |-> hundredths]
PyStr(s) == [t |-> "str", s |-> s]
PyList(items) == [t |-> "list", items |-> items]
PyDict(entries) == [t |-> "dict", entries |-> entries]

Entry(key, value) == [key |-> key, value |-> value]

\* dict.get(key, default)
DictGet(d, key, default) ==
    IF \E i \in 1..Len(d.entries) : d.entries[i].key = key
    THEN d.entries[CHOOSE i \in 1..Len(d.entries) : d.entries[i].key = key].value
    ELSE default

\* the types len() is defined on; on the others it raises TypeError
HasLen(v) == v.t \in {"str", "list", "dict"}

PyLen(v) ==
    IF v.t = "str" THEN Len(v.s)
    ELSE IF v.t = "list" THEN Len(v.items)
    ELSE Len(v.entries)

\* bool(v)
Truthy(v) ==
    IF v.t = "none" THEN FALSE
    ELSE IF v.t = "num" THEN v.n # 0
    ELSE PyLen(v) > 0

\* an upstream call that raised: generate_chat_completion wraps every error
\* of the provider's library, a timeout included, in an Exception
Failure(kind) == [kind |-> kind]

\* an upstream call that returned text that is not JSON; numbered and
\* bulleted are what the two patterns of re.findall match in it
Text(raw, numbered, bulleted) ==
    [kind |-> "text", raw |-> raw, numbered |-> numbered, bulleted |-> bulleted]

\* an upstream call that returned well-formed JSON: value is json.loads(raw)
Json(raw, value) == [kind |-> "json", raw |-> raw, value |-> value]

Raised(outcome) == outcome.kind \in {"exception", "timeout"}

FULL_SUGGESTION ==
    PyDict(<<Entry("suggested_text", PyStr("Consent is obtained in writing.")),
             Entry("placement_guidance", PyStr("Ethics")),
             Entry("explanation", PyStr("Required by the guideline")),
             Entry("confidence", PyNum(80)),
             Entry("target_section", PyStr("Ethics")),
             Entry("reasoning", PyStr("Consent must be described"))>>)

ONE_ISSUE ==
    PyDict(<<Entry("issue_type", PyStr("clarity")),
             Entry("section", PyStr("Methods")),
             Entry("problem", PyStr("Outcome not defined")),
             Entry("type", PyStr("clarity")),
             Entry("issue", PyStr("Outcome not defined")),
             Entry("suggestion", PyStr("Define the primary outcome")),
             Entry("confidence", PyNum(700))>>)

POINTS_TEXT == "1. Clarify the primary outcome\n2. State the sample size\n- ab\n- c"

Outcomes == {
    Failure("exception"),
    Failure("timeout"),
    Text(POINTS_TEXT,
         <<"Clarify the primary outcome", "State the sample size\n- ab\n- c">>,
         <<"ab", "c">>),
    Json("5", PyNum(500)),
    Json("null", PyNone),
    Json("{}", PyDict(<<>>)),
    Json("[{...}]", PyList(<<ONE_ISSUE>>)) }

\* the outcomes of the call made for one missing item
ItemOutcomes == Outcomes \cup {Json("{...}", FULL_SUGGESTION)}

ITEM_LIMIT == 5             \* missing_items[:5]
ISSUE_LIMIT == 5            \* issues[:5]
PROBLEM_MAX == 200          \* content.strip()[:200]
SUGGESTED_TEXT_MAX == 500   \* response[:500]

\* the issue _extract_analysis_from_text builds from one point
TextIssue(content, analysis_type) ==
    PyDict(<<Entry("issue_type", PyStr(analysis_type)),
             Entry("section", PyStr("General")),
             Entry("problem", PyStr(Prefix(Strip(content), PROBLEM_MAX))),
             Entry("impact", PyStr("Affects protocol quality")),
             Entry("suggestion", PyStr("Review and revise as needed")),
             Entry("priority", PyStr("medium"))>>)

\* the point _extract_analysis_from_text takes from a match of the second
\* pattern, which has one group: the match is a str, and match[1] is its
\* second character
BulletContent(match) == IF Len(match) > 1 THEN Chr(match, 2) ELSE Chr(match, 1)

\* AdvancedLLMAnalyzer._extract_analysis_from_text
ExtractAnalysisFromText(outcome, analysis_type) ==
    PyList(Prefix(
        [i \in 1..Len(outcome.numbered) |->
            TextIssue(outcome.numbered[i], analysis_type)]
        \o [i \in 1..Len(outcome.bulleted) |->
            TextIssue(BulletContent(outcome.bulleted[i]), analysis_type)],
        ISSUE_LIMIT))

\* _parse_clarity_analysis and _parse_consistency_analysis, of a response
ParseAnalysis(outcome, analysis_type) ==
    IF outcome.kind = "json" THEN outcome.value
    ELSE ExtractAnalysisFromText(outcome, analysis_type)

\* _analyze_clarity_and_completeness and _analyze_consistency, from the
\* outcome of their one upstream call
AnalyzeText(outcome, analysis_type) ==
    IF Raised(outcome) THEN PyList(<<>>)
    ELSE ParseAnalysis(outcome, analysis_type)

SUMMARY_FAILED == "Executive summary could not be generated due to technical issues."

\* _generate_executive_summary, from the outcome of its one upstream call
GenerateExecutiveSummary(outcome) ==
    IF Raised(outcome) THEN PyStr(SUMMARY_FAILED) ELSE PyStr(outcome.raw)

\* _parse_non_json_suggestion
ParseNonJsonSuggestion(response, missing_item) ==
    PyDict(<<Entry("item_id", PyStr(missing_item.item_id)),
             Entry("type", PyStr("missing_item")),
             Entry("section", PyStr(missing_item.section)),
             Entry("issue", PyStr("Missing: " \o missing_item.description)),
             Entry("suggested_text",
                   PyStr(IF response # "" THEN Prefix(response, SUGGESTED_TEXT_MAX)
                         ELSE "No suggestion available")),
             Entry("explanation", PyStr("AI-generated suggestion")),
             Entry("confidence", PyNum(60)),
             Entry("guideline", PyStr(missing_item.guideline))>>)

\* the dict _generate_item_suggestion builds from a decoded dict
JsonSuggestion(suggestion_data, missing_item) ==
    PyDict(<<Entry("item_id", PyStr(missing_item.item_id)),
             Entry("type", PyStr("missing_item")),
             Entry("section", PyStr(missing_item.section)),
             Entry("issue", PyStr("Missing: " \o missing_item.description)),
             Entry("suggested_text", DictGet(suggestion_data, "suggested_text", PyStr(""))),
             Entry("placement_guidance",
                   DictGet(suggestion_data, "placement_guidance", PyStr(""))),
             Entry("explanation", DictGet(suggestion_data, "explanation", PyStr(""))),
             Entry("confidence", DictGet(suggestion_data, "confidence", PyNum(50))),
             Entry("alternative_approaches",
                   DictGet(suggestion_data, "alternative_approaches", PyList(<<>>))),
             Entry("regulatory_context",
                   DictGet(suggestion_data, "regulatory_context", PyStr(""))),
             Entry("guideline", PyStr(missing_item.guideline))>>)

\* AdvancedLLMAnalyzer._generate_item_suggestion, from the outcome of its
\* upstream call: a decoded value that is no dict has no .get, and the
\* AttributeError is caught
GenerateItemSuggestion(outcome, missing_item) ==
    IF Raised(outcome) THEN PyNone
    ELSE IF outcome.kind = "text"
    THEN ParseNonJsonSuggestion(outcome.raw, missing_item)
    ELSE IF outcome.value.t = "dict"
    THEN JsonSuggestion(outcome.value, missing_item)
    ELSE PyNone

\* the loop body of _analyze_missing_items
AppendSuggestion(suggestions, suggestion) ==
    IF Truthy(suggestion) THEN Append(suggestions, suggestion) ELSE suggestions

ANALYSIS_TIMESTAMP == "2025-01-08T10:00:00Z"

\* AdvancedLLMAnalyzer._get_fallback_analysis
FallbackAnalysis ==
    [missing_items_analysis |-> PyList(<<>>),
     clarity_analysis |->
        PyList(<<PyDict(<<Entry("issue_type", PyStr("system")),
                          Entry("section", PyStr("General")),
                          Entry("problem", PyStr("AI analysis unavailable")),
                          Entry("impact", PyStr("Manual review required")),
                          Entry("suggestion",
                                PyStr("Configure API keys for AI-powered analysis")),
                          Entry("priority", PyStr("low"))>>)>>),
     consistency_analysis |-> PyList(<<>>),
     executive_summary |->
        PyStr("AI analysis is currently unavailable. Please ensure your API keys "
              \o "are properly configured for enhanced analysis capabilities."),
     provider |-> "fallback",
     analysis_timestamp |-> ANALYSIS_TIMESTAMP]

(***************************************************************************)
(* AdvancedLLMAnalyzer: the client, and the four sub-analyses that         *)
(* analyze_protocol_comprehensive hands to asyncio.gather.  asyncio runs a *)
(* task without interruption up to its next await, so each task sends its  *)
(* upstream call when it starts and when it resumes, and the upstream      *)
(* responses arrive in any order.                                          *)
(***************************************************************************)
DEFAULT_LLM_PROVIDER == "openai"

\* OpenAIClient.__init__ and AnthropicClient.__init__: the constructor raises
\* when the provider's package is missing or rejects its arguments
ConstructClient(sdk, provider) ==
    IF sdk = "ok" THEN Some([provider |-> provider]) ELSE NONE

\* a client is built for the selected provider as soon as any key is set
InitializeClient_AnyKey(config, provider) ==
    IF config.OPENAI_API_KEY \/ config.ANTHROPIC_API_KEY
    THEN ConstructClient(config.sdk, provider) ELSE NONE

\* AdvancedLLMAnalyzer._initialize_client: the client, or None
InitializeClient(config, provider) ==
    IF provider = "openai"
    THEN IF config.OPENAI_API_KEY
         THEN ConstructClient(config.sdk, provider) ELSE NONE
    ELSE IF provider = "anthropic"
    THEN IF config.ANTHROPIC_API_KEY
         THEN ConstructClient(config.sdk, provider) ELSE NONE
    ELSE NONE

\* AdvancedLLMAnalyzer.__init__: self.provider
ProviderOrDefault(provider) ==
    IF provider = NONE THEN DEFAULT_LLM_PROVIDER ELSE provider[1]

TaskNames == {"missing_items", "clarity", "consistency", "summary"}

Task(pc, log, result) == [pc |-> pc, log |-> log, result |-> result]

\* no analysis is running
NoTasks == [t \in TaskNames |-> Task("none", <<>>, PyNone)]

\* a task that has sent its upstream call and awaits the response
Awaiting(result) == Task("awaiting", <<>>, result)

\* the coroutines at their first await: _analyze_missing_items makes no call
\* for an empty list and is finished at once
StartTasks(missing_items) ==
    [missing_items |->
        IF Prefix(missing_items, ITEM_LIMIT) = <<>>
        THEN Task("done", <<>>, PyList(<<>>))
        ELSE Awaiting(PyList(<<>>)),
     clarity |-> Awaiting(PyNone),
     consistency |-> Awaiting(PyNone),
     summary |-> Awaiting(PyNone)]

\* the upstream calls sent by the tasks as they start
StartCalls(missing_items) ==
    IF Prefix(missing_items, ITEM_LIMIT) = <<>> THEN 3 ELSE 4

\* _analyze_missing_items resumed with the outcome of the call for its next
\* item: it keeps the suggestion, then sends the call for the item after it
\* or returns
MissingItemsStep(task, outcome, items) ==
    Task(IF Len(task.log) + 1 < Len(items) THEN "awaiting" ELSE "done",
         Append(task.log, outcome),
         PyList(AppendSuggestion(
                    task.result.items,
                    GenerateItemSuggestion(outcome, items[Len(task.log) + 1]))))

\* a task resumed with the outcome of its upstream call
TaskStep(t, task, outcome, missing_items) ==
    IF t = "missing_items"
    THEN MissingItemsStep(task, outcome, Prefix(missing_items, ITEM_LIMIT))
    ELSE IF t = "clarity"
    THEN Task("done", <<outcome>>, AnalyzeText(outcome, "clarity"))
    ELSE IF t = "consistency"
    THEN Task("done", <<outcome>>, AnalyzeText(outcome, "consistency"))
    ELSE Task("done", <<outcome>>, GenerateExecutiveSummary(outcome))

\* results[i] if not isinstance(results[i], Exception) else empty: a task
\* whose coroutine raised is at "raised"
GatherPart(task, empty) ==
    IF task.pc = "raised" THEN empty ELSE task.result

\* every part is dropped as soon as one upstream call has failed
GatherResults_AllOrNothing(all, provider) ==
    IF \E t \in TaskNames : \E i \in 1..Len(all[t].log) : Raised(all[t].log[i])
    THEN [missing_items_analysis |-> PyList(<<>>),
          clarity_analysis |-> PyList(<<>>),
          consistency_analysis |-> PyList(<<>>),
          executive_summary |-> PyStr(""),
          provider |-> provider,
          analysis_timestamp |-> ANALYSIS_TIMESTAMP]
    ELSE [missing_items_analysis |-> all.missing_items.result,
          clarity_analysis |-> all.clarity.result,
          consistency_analysis |-> all.consistency.result,
          executive_summary |-> all.summary.result,
          provider |-> provider,
          analysis_timestamp |-> ANALYSIS_TIMESTAMP]

\* the dict analyze_protocol_comprehensive returns once gather has every result
GatherResults(all, provider) ==
    [missing_items_analysis |-> GatherPart(all.missing_items, PyList(<<>>)),
     clarity_analysis |-> GatherPart(all.clarity, PyList(<<>>)),
     consistency_analysis |-> GatherPart(all.consistency, PyList(<<>>)),
     executive_summary |-> GatherPart(all.summary, PyStr("")),
     provider |-> provider,
     analysis_timestamp |-> ANALYSIS_TIMESTAMP]

(***************************************************************************)
(* api/analysis.py: POST /{protocol_id}/comprehensive                      *)
(***************************************************************************)
HTTPError(status_code, detail) == [status_code |-> status_code, detail |-> detail]

\* the response when the analyzer has no client
PartialResponse(protocol_id, compliance_results) ==
    [status_code |-> 200,
     body |-> [protocol_id |-> protocol_id,
               compliance_analysis |-> compliance_results,
               ai_analysis |->
                   [note |-> "LLM service not available - compliance analysis only"],
               overall_score |-> compliance_results.score,
               analysis_provider |-> "rule_based_only",
               recommendations_count |-> Len(compliance_results.failed_items),
               status |-> "partial_complete"]]

\* the response built from the analysis (analyzed_at, the time of the call, is
\* left out); len() of a part that has no length
\* raises TypeError, which the handler turns into status 500
CompleteResponse(protocol_id, provider, compliance_results, analysis_results) ==
    IF HasLen(analysis_results.missing_items_analysis)
       /\ HasLen(analysis_results.clarity_analysis)
    THEN [status_code |-> 200,
          body |-> [protocol_id |-> protocol_id,
                    compliance_analysis |-> compliance_results,
                    ai_analysis |-> analysis_results,
                    overall_score |-> compliance_results.score,
                    analysis_provider |-> ProviderOrDefault(provider),
                    recommendations_count |->
                        PyLen(analysis_results.missing_items_analysis)
                        + PyLen(analysis_results.clarity_analysis),
                    status |-> "complete"]]
    ELSE HTTPError(500, "Comprehensive analysis failed: TypeError")

\* get_protocol_by_id: the stored protocol, or None
GetProtocolById(store, protocol_id) ==
    IF \E i \in 1..Len(store) : store[i].id = protocol_id
    THEN Some(store[CHOOSE i \in 1..Len(store) : store[i].id = protocol_id])
    ELSE NONE

(***************************************************************************)
(* The inputs of the LLM layer.                                            *)
(***************************************************************************)
Config(openai_key, anthropic_key, sdk) ==
    [OPENAI_API_KEY |-> openai_key, ANTHROPIC_API_KEY |-> anthropic_key, sdk |-> sdk]

\* the settings of a deployment: which keys are set, and whether the
\* provider packages are installed ("ok"), missing, or raise on construction
Deployments == {
    Config(FALSE, FALSE, "ok"),
    Config(TRUE, FALSE, "ok"),
    Config(FALSE, TRUE, "ok"),
    Config(TRUE, TRUE, "missing"),
    Config(TRUE, TRUE, "raises") }

NO_LLM == Config(FALSE, FALSE, "missing")

Protocol(id, content, sections) ==
    [id |-> id, content |-> content, sections |-> sections]

\* what the analysis module's store holds
StoredProtocols == <<
    Protocol("protocol_123", T_ALL,
             <<Section("Title", T_FULL_1A), Section("Introduction", T_INTRO),
               Section("Administrative Information", T_ADMIN)>>),
    Protocol("protocol_456", T_ALL, <<Section("Notes", T_NOTHING)>>) >>

\* ids create_sample_protocol can draw: "protocol_" and eight hex digits
SampleIds == {"protocol_0a1b2c3d", "protocol_9f8e7d6c"}

ProtocolIds == {"protocol_123", "protocol_456", "protocol_999"}

Providers == {NONE, Some("openai"), Some("anthropic"), Some("azure")}

FailedItem(item, guideline) ==
    [item_id |-> item.id, description |-> item.description,
     section |-> item.section, guideline |-> guideline]

\* the lists of missing items given to the analyzers directly
MissingItemLists == {
    <<>>,
    <<FailedItem(CONSORT_ITEMS[1], "CONSORT")>>,
    <<FailedItem(CONSORT_ITEMS[1], "CONSORT"), FailedItem(SPIRIT_ITEMS[5], "SPIRIT")>> }

\* the clients whose requests can be in flight at once
Clients == {"client_a", "client_b"}

NoRequest == [op |-> "none", pc |-> "none"]

NoRequests == [c \in Clients |-> NoRequest]

\* the protocols API is not called: its store is not looked at, no request
\* is in flight and nothing is uploaded
NoAPI ==
    /\ MOCK_PROTOCOLS_STORE = <<>>
    /\ requests = NoRequests
    /\ uploads = {}

\* the checker and the document processor alone: no LLM layer
NoLLM ==
    /\ settings = NO_LLM
    /\ MOCK_PROTOCOLS = <<>>
    /\ tasks = NoTasks
    /\ upstream_calls = 0

(***************************************************************************)
(* The state machine: a ComplianceChecker is constructed, then called; the *)
(* caller takes each result before the next call is made.                  *)
(***************************************************************************)
IDLE == [op |-> "idle"]

DEFAULT_CONSORT == SubSeq(CONSORT_ITEMS, 1, 4)   \* _get_default_consort
DEFAULT_SPIRIT == SubSeq(SPIRIT_ITEMS, 1, 3)     \* _get_default_spirit

\* ComplianceChecker.__init__ with no guideline file present
Init ==
    /\ consort_guidelines = DEFAULT_CONSORT
    /\ spirit_guidelines = DEFAULT_SPIRIT
    /\ hashseed \in 0..(NumSeeds - 1)
    /\ call = IDLE
    /\ NoLLM
    /\ NoAPI

\* ComplianceChecker.__init__: each guideline comes from its JSON file or is
\* the built-in default
InitFiles ==
    /\ consort_guidelines \in ConsortFiles \cup {DEFAULT_CONSORT}
    /\ spirit_guidelines \in SpiritFiles \cup {DEFAULT_SPIRIT}
    /\ hashseed \in 0..(NumSeeds - 1)
    /\ call = IDLE
    /\ NoLLM
    /\ NoAPI

\* a call that uses up the first item of the CONSORT checklist
CheckComplianceCall_Consumes ==
    /\ call = IDLE
    /\ \E content \in ComplianceTexts,
          sections \in {NONE} \cup {Some(m) : m \in ComplianceMaps} :
          call' = [op |-> "check_compliance", content |-> content,
                   sections |-> sections,
                   result |-> CheckCompliance(content, sections)]
    /\ consort_guidelines' = IF consort_guidelines = <<>> THEN <<>>
                             ELSE Tail(consort_guidelines)
    /\ UNCHANGED <<spirit_guidelines, hashseed,
                   settings, MOCK_PROTOCOLS, tasks, upstream_calls, api>>

CheckComplianceCall ==
    /\ call = IDLE
    /\ \E content \in ComplianceTexts,
          sections \in {NONE} \cup {Some(m) : m \in ComplianceMaps} :
          call' = [op |-> "check_compliance", content |-> content,
                   sections |-> sections,
                   result |-> CheckCompliance(content, sections)]
    /\ UNCHANGED <<consort_guidelines, spirit_guidelines, hashseed,
                   settings, MOCK_PROTOCOLS, tasks, upstream_calls, api>>

CheckItemCall ==
    /\ call = IDLE
    /\ \E content \in Texts, sections \in SectionMaps, item \in ItemPool :
          call' = [op |-> "check_item", content |-> content,
                   sections |-> sections, item |-> item,
                   result |-> CheckItem(content, sections, item)]
    /\ UNCHANGED <<consort_guidelines, spirit_guidelines, hashseed,
                   settings, MOCK_PROTOCOLS, tasks, upstream_calls, api>>

ExtractKeywordsCall ==
    /\ call = IDLE
    /\ \E description \in Descriptions :
          call' = [op |-> "extract_keywords", description |-> description,
                   result |-> ExtractKeywords(description)]
    /\ UNCHANGED <<consort_guidelines, spirit_guidelines, hashseed,
                   settings, MOCK_PROTOCOLS, tasks, upstream_calls, api>>

FindRelevantSectionsCall ==
    /\ call = IDLE
    /\ \E sections \in HintedMaps \cup SectionMaps, section_hint \in Hints :
          call' = [op |-> "find_relevant_sections", sections |-> sections,
                   section_hint |-> section_hint,
                   result |-> FindRelevantSections(sections, section_hint)]
    /\ UNCHANGED <<consort_guidelines, spirit_guidelines, hashseed,
                   settings, MOCK_PROTOCOLS, tasks, upstream_calls, api>>

SearchForKeywordsCall ==
    /\ call = IDLE
    /\ \E text \in Texts, keywords \in KeywordLists :
          call' = [op |-> "search_for_keywords", text |-> text,
                   keywords |-> keywords,
                   result |-> SearchForKeywords(text, keywords)]
    /\ UNCHANGED <<consort_guidelines, spirit_guidelines, hashseed,
                   settings, MOCK_PROTOCOLS, tasks, upstream_calls, api>>

\* the caller has the result; the checker keeps nothing of the call
Return ==
    /\ call # IDLE
    /\ call' = IDLE
    /\ UNCHANGED <<consort_guidelines, spirit_guidelines, hashseed,
                   settings, MOCK_PROTOCOLS, tasks, upstream_calls, api>>

Next ==
    \/ CheckComplianceCall
    \/ CheckItemCall
    \/ ExtractKeywordsCall
    \/ FindRelevantSectionsCall
    \/ SearchForKeywordsCall
    \/ Return

\* a checker with the built-in checklists, every operation
Spec == Init /\ [][Next]_vars

NextCompliance == CheckComplianceCall \/ Return

\* a checker with any of the guideline files, check_compliance
SpecCompliance == InitFiles /\ [][NextCompliance]_vars

(***************************************************************************)
(* Properties.                                                             *)
(***************************************************************************)
\* keyword occurs in text, case-insensitively, as a substring
Present(text, keyword) == Contains(Lower(text), Lower(keyword))

\* the number of keywords of the list that occur in text
PresentCount(text, keywords) ==
    Cardinality({i \in 1..Len(keywords) : Present(text, keywords[i])})

SeqToSet(seq) == {seq[i] : i \in 1..Len(seq)}

\* the item results the last call produced
ItemResults ==
    IF call.op = "check_item" THEN {call.result}
    ELSE IF call.op = "check_compliance"
    THEN SeqToSet(call.result.consort_details.items)
         \cup SeqToSet(call.result.spirit_details.items)
    ELSE {}

\* C1: every item result is classified by its final confidence c: "pass"
\* exactly when c >= 0.8 (issue None), "warning" exactly when 0.4 <= c < 0.8
\* (issue "Item may be present but could be more explicit"), "fail" exactly
\* when c < 0.4 (issue "Item not found or not adequately addressed"); there
\* is no other status.
C1_StatusByConfidence ==
    \A r \in ItemResults :
        LET c == r.confidence
        IN  /\ r.status \in {"pass", "warning", "fail"}
            /\ r.status = "pass" <=> GE(c, 4, 5)
            /\ r.status = "warning" <=> (GE(c, 2, 5) /\ ~GE(c, 4, 5))
            /\ r.status = "fail" <=> ~GE(c, 2, 5)
            /\ r.status = "pass" => r.issue = NONE
            /\ r.status = "warning" => r.issue = Some(ISSUE_WARNING)
            /\ r.status = "fail" => r.issue = Some(ISSUE_FAIL)

\* an item checked with confidence exactly 0.8, the lowest that passes
C1_Witness ==
    /\ call.op = "check_item"
    /\ call.result.confidence = Ratio(4, 5)
    /\ call.result.status = "pass"

\* the last _check_item call: its keywords, its relevant sections, and
\* whether a keyword occurs in a relevant section
ItemKeywords == ExtractKeywords(call.item.description)
ItemRelevant == FindRelevantSections(call.sections, Lower(call.item.section))
FoundInRelevant ==
    \E i \in 1..Len(ItemRelevant), j \in 1..Len(ItemKeywords) :
        Present(ItemRelevant[i].content, ItemKeywords[j])

\* C2: when no keyword of the item occurs in a relevant section and k of its
\* n keywords occur in the raw content, the confidence is 0.7 * k/n: never
\* more than 0.7 times the k/n a relevant section with the same overlap gets.
C2_Damping ==
    (call.op = "check_item" /\ ~FoundInRelevant /\ Len(ItemKeywords) > 0) =>
        LET n == Len(ItemKeywords)
            k == PresentCount(call.content, ItemKeywords)
            c == call.result.confidence
            inside == SearchForKeywords(call.content, ItemKeywords).confidence
        IN  /\ c.num * 10 * n = 7 * k * c.den
            /\ c.ulp <= 0
            /\ inside.num * n = k * inside.den
            /\ c.num * 10 * inside.den = 7 * inside.num * c.den

\* an item found only in the raw content, outside the relevant section
C2_Witness ==
    /\ call.op = "check_item"
    /\ ~FoundInRelevant
    /\ ItemRelevant # <<>>
    /\ PresentCount(call.content, ItemKeywords) \in 1..(Len(ItemKeywords) - 1)

\* the last check_compliance call: the items checked, the sections searched
AllItems == consort_guidelines \o spirit_guidelines
SectionsSearched ==
    IF call.sections = NONE THEN <<Section("content", call.content)>>
    ELSE call.sections[1]
AllResults ==
    call.result.consort_details.items \o call.result.spirit_details.items

\* every keyword of the item occurs in every section relevant to the item,
\* and there is such a section
FullyPresent(item) ==
    LET keywords == ExtractKeywords(item.description)
        relevant == FindRelevantSections(SectionsSearched, Lower(item.section))
    IN  /\ relevant # <<>>
        /\ \A i \in 1..Len(relevant), j \in 1..Len(keywords) :
                Present(relevant[i].content, keywords[j])

AllPass ==
    /\ call.result.score = 1000
    /\ call.result.passed_items = Len(AllItems)
    /\ call.result.failed_items = <<>>

NothingPresent ==
    \A i \in 1..Len(AllItems) :
        LET keywords == ExtractKeywords(AllItems[i].description)
        IN  \A j \in 1..Len(keywords) :
                /\ ~Present(call.content, keywords[j])
                /\ \A k \in 1..Len(SectionsSearched) :
                        ~Present(SectionsSearched[k].content, keywords[j])

\* C4: when no keyword of any of the N items occurs anywhere, the score is
\* 0.0, every item result is "fail" with confidence 0, and failed_items has
\* N entries.
C4_NothingPresentAllFail ==
    (call.op = "check_compliance" /\ NothingPresent) =>
        /\ call.result.score = 0
        /\ Len(AllResults) = Len(AllItems)
        /\ \A i \in 1..Len(AllResults) :
              /\ AllResults[i].status = "fail"
              /\ AllResults[i].confidence = ZERO
        /\ Len(call.result.failed_items) = Len(AllItems)

\* a checklist with keywords, none of which occurs in the document
C4_Witness ==
    /\ call.op = "check_compliance"
    /\ NothingPresent
    /\ call.sections # NONE /\ call.sections # Some(<<>>)
    /\ \E i \in 1..Len(AllItems) : ExtractKeywords(AllItems[i].description) # <<>>
    /\ Len(call.result.failed_items) >= 2

Abs(x) == IF x >= 0 THEN x ELSE -x

\* score (in tenths) is exactly 100 * passed / total, 0 when total is 0
ExactScore(score, passed, total) ==
    IF total = 0 THEN score = 0 ELSE score * total = 1000 * passed

\* score (in tenths) is 100 * passed / total to the nearest tenth, 0 when total is 0
RoundedScore(score, passed, total) ==
    IF total = 0 THEN score = 0
    ELSE 2 * Abs(score * total - 1000 * passed) <= total

ConsortTotal == Len(call.result.consort_details.items)
SpiritTotal == Len(call.result.spirit_details.items)
ConsortPassed == PassedCount(call.result.consort_details.items)
SpiritPassed == PassedCount(call.result.spirit_details.items)

\* C5 as stated: each guideline's score is 100 * passed / total (0 without
\* items), the overall score is 100 * (passed_consort + passed_spirit) /
\* (total_consort + total_spirit) (0 when both are empty), and every score
\* lies in [0, 100].
C5_Original ==
    call.op = "check_compliance" =>
        /\ ExactScore(call.result.consort_score, ConsortPassed, ConsortTotal)
        /\ ExactScore(call.result.spirit_score, SpiritPassed, SpiritTotal)
        /\ ExactScore(call.result.score, ConsortPassed + SpiritPassed,
                      ConsortTotal + SpiritTotal)
        /\ {call.result.score, call.result.consort_score,
            call.result.spirit_score} \subseteq 0..1000

\* C5, amended: each of the three scores is that quotient rounded to one
\* decimal place; the overall score, taken from the pooled counts, is within
\* 0.1 of the item-count-weighted blend of the two guideline scores.
C5_ScoresRounded ==
    call.op = "check_compliance" =>
        /\ RoundedScore(call.result.consort_score, ConsortPassed, ConsortTotal)
        /\ RoundedScore(call.result.spirit_score, SpiritPassed, SpiritTotal)
        /\ RoundedScore(call.result.score, ConsortPassed + SpiritPassed,
                        ConsortTotal + SpiritTotal)
        /\ {call.result.score, call.result.consort_score,
            call.result.spirit_score} \subseteq 0..1000
        /\ call.result.total_items = ConsortTotal + SpiritTotal
        /\ call.result.passed_items = ConsortPassed + SpiritPassed
        /\ Abs(call.result.score * (ConsortTotal + SpiritTotal)
               - (call.result.consort_score * ConsortTotal
                  + call.result.spirit_score * SpiritTotal))
           <= ConsortTotal + SpiritTotal

\* checklists of different lengths whose overall score is rounded and is
\* more than 0.1 away from the plain average of the two guideline scores
C5_Witness ==
    /\ call.op = "check_compliance"
    /\ ConsortTotal > 0 /\ SpiritTotal > 0 /\ ConsortTotal # SpiritTotal
    /\ ~ExactScore(call.result.score, ConsortPassed + SpiritPassed,
                   ConsortTotal + SpiritTotal)
    /\ Abs(2 * call.result.score
           - (call.result.consort_score + call.result.spirit_score)) > 2

\* a <= b for two confidences
LessEq(a, b) == a.num * b.den <= b.num * a.den

\* C6: _search_for_keywords returns confidence = (keywords that occur in the
\* text, case-insensitively, as substrings) / (keywords), 0 for an empty
\* list; so the confidence is in [0, 1], does not decrease when more of the
\* keywords are present, and found == (confidence > 0).
C6_ConfidenceIsFraction ==
    call.op = "search_for_keywords" =>
        LET n == Len(call.keywords)
            k == PresentCount(call.text, call.keywords)
            c == call.result.confidence
        IN  /\ c.den > 0 /\ c.ulp = 0
            /\ n = 0 => c.num = 0
            /\ n > 0 => c.num * n = k * c.den
            /\ 0 <= c.num /\ c.num <= c.den
            /\ call.result.found <=> c.num > 0
            /\ \A other \in Texts :
                  PresentCount(other, call.keywords) >= k =>
                      LessEq(c, SearchForKeywords(other, call.keywords).confidence)

\* some but not all keywords are found, one of them in another letter case
C6_Witness ==
    /\ call.op = "search_for_keywords"
    /\ PresentCount(call.text, call.keywords) \in 1..(Len(call.keywords) - 1)
    /\ \E i \in 1..Len(call.keywords) :
          /\ Present(call.text, call.keywords[i])
          /\ ~Contains(call.text, call.keywords[i])

EveryKeywordPresent ==
    \A i \in 1..Len(call.keywords) : Present(call.text, call.keywords[i])

\* C7 as stated: for every text and keyword set, the empty set included,
\* the confidence is 1.0 if and only if every keyword is present.
C7_Original ==
    call.op = "search_for_keywords" =>
        (call.result.confidence = Ratio(1, 1) <=> EveryKeywordPresent)

\* C7, amended: for a non-empty keyword list the confidence is 1.0 if and
\* only if every keyword is present; for the empty list it is 0.
C7_FullConfidence ==
    call.op = "search_for_keywords" =>
        /\ call.keywords # <<>> =>
              (call.result.confidence = Ratio(1, 1) <=> EveryKeywordPresent)
        /\ call.keywords = <<>> => call.result.confidence = ZERO

\* a list with a repeated keyword, all of it present
C7_Witness ==
    /\ call.op = "search_for_keywords"
    /\ Len(call.keywords) >= 2
    /\ Cardinality(SeqToSet(call.keywords)) < Len(call.keywords)
    /\ EveryKeywordPresent
    /\ call.result.confidence = Ratio(1, 1)

\* the section label qualifies for the hint: the lower-cased label contains
\* the hint, or the hint contains a synonym of a bucket of which the label
\* contains a synonym too
Qualifies(name, section_hint) ==
    \/ Contains(Lower(name), section_hint)
    \/ \E b \in 1..Len(section_patterns) :
          /\ AnyIn(section_patterns[b].patterns, section_hint)
          /\ AnyIn(section_patterns[b].patterns, Lower(name))

Qualifying == {i \in 1..Len(call.sections) :
                Qualifies(call.sections[i].name, call.section_hint)}

\* C8 as stated: the matcher never returns an empty mapping; when no section
\* qualifies it returns the full SectionMap.
C8_Original ==
    call.op = "find_relevant_sections" =>
        /\ call.result # <<>>
        /\ Qualifying = {} => call.result = call.sections

\* C8, amended: when no section qualifies the matcher returns the full
\* SectionMap, so it returns an empty mapping only for an empty SectionMap.
C8_FallbackToFullMap ==
    call.op = "find_relevant_sections" =>
        /\ Qualifying = {} => call.result = call.sections
        /\ call.sections # <<>> => call.result # <<>>

\* two sections, neither of which qualifies: both are returned
C8_Witness ==
    /\ call.op = "find_relevant_sections"
    /\ Len(call.sections) >= 2
    /\ Qualifying = {}
    /\ call.result = call.sections

\* C9: the result is a sub-mapping of the sections, bodies unchanged; when
\* at least one section qualifies, it holds exactly the qualifying sections.
C9_ExactlyQualifying ==
    call.op = "find_relevant_sections" =>
        /\ SeqToSet(call.result) \subseteq SeqToSet(call.sections)
        /\ \A i, j \in 1..Len(call.result) :
              i # j => call.result[i].name # call.result[j].name
        /\ Qualifying # {} =>
              SeqToSet(call.result) = {call.sections[i] : i \in Qualifying}

\* one section qualifies by its label containing the hint, another only by a
\* bucket synonym, a third not at all
C9_Witness ==
    /\ call.op = "find_relevant_sections"
    /\ \E i \in Qualifying :
          Contains(Lower(call.sections[i].name), call.section_hint)
    /\ \E i \in Qualifying :
          ~Contains(Lower(call.sections[i].name), call.section_hint)
    /\ Len(call.result) < Len(call.sections)

\* the words of s: the maximal runs of word characters that are four or
\* more letters and nothing else
WordsOf(s) ==
    {SubSeq(s, i, j) : i \in 1..Len(s), j \in 1..Len(s)} \cap
    {w \in {SubSeq(s, i, j) : i \in 1..Len(s), j \in 1..Len(s)} :
        \E i \in 1..Len(s) :
            LET j == i + Len(w) - 1
            IN  /\ Len(w) >= 4 /\ j <= Len(s)
                /\ SubSeq(s, i, j) = w
                /\ \A p \in i..j : IsLetter(Chr(s, p))
                /\ i = 1 \/ ~IsWordChar(Chr(s, i - 1))
                /\ j = Len(s) \/ ~IsWordChar(Chr(s, j + 1))}

NonStopWords(s) == {w \in WordsOf(s) : w \notin STOPWORDS}

\* C10 as stated: the keywords are non-empty whenever the description holds
\* a word of length >= 4 that is not in the stopword set, and every such word
\* of the description is itself among the keywords.
C10_Original ==
    call.op = "extract_keywords" =>
        LET words == NonStopWords(call.description)
        IN  /\ words # {} => call.result # <<>>
            /\ words \subseteq SeqToSet(call.result)

\* C10, amended: the same of the lower-cased description: the keywords are
\* non-empty whenever it holds such a word, and every such word of the
\* lower-cased description is among the keywords.
C10_WordsAreKeywords ==
    call.op = "extract_keywords" =>
        LET words == NonStopWords(Lower(call.description))
        IN  /\ words # {} => call.result # <<>>
            /\ words \subseteq SeqToSet(call.result)

\* a description with a capital, a stopword and a four-letter word
C10_Witness ==
    /\ call.op = "extract_keywords"
    /\ call.description # Lower(call.description)
    /\ WordsOf(Lower(call.description)) \cap STOPWORDS # {}
    /\ \E w \in NonStopWords(Lower(call.description)) : Len(w) = 4
    /\ NonStopWords(Lower(call.description)) \subseteq SeqToSet(call.result)

(***************************************************************************)
(* C11: every keyword _extract_keywords returns is lowercase, and no       *)
(* keyword appears twice in the result, the keywords of the static rules   *)
(* included.                                                               *)
(***************************************************************************)
IsLower(s) == Lower(s) = s

NoRepeats(seq) == \A i, j \in 1..Len(seq) : seq[i] = seq[j] => i = j

C11_LowercaseDistinct ==
    call.op = "extract_keywords" =>
        /\ \A i \in 1..Len(call.result) : IsLower(call.result[i])
        /\ NoRepeats(call.result)

(***************************************************************************)
(* C12: keyword order is not significant.  For fixed content, sections and *)
(* item, _check_item's result is compared over orderings of the keyword    *)
(* list extracted from the item's description: every rotation of the list  *)
(* and of its reverse.                                                     *)
(***************************************************************************)
Reverse(seq) == [i \in 1..Len(seq) |-> seq[Len(seq) + 1 - i]]

Orderings(seq) ==
    {Rotate(seq, k) : k \in 0..Len(seq)} \cup {Rotate(Reverse(seq), k) : k \in 0..Len(seq)}

\* the results of the call's _check_item over the orderings of its keywords
ReorderedResults ==
    {CheckItemKeywords(call.content, call.sections, call.item, ord) :
        ord \in Orderings(ExtractKeywords(call.item.description))}

\* C12 as stated: the whole result (found_text included) is the same for
\* every ordering of the keywords
C12_Original ==
    call.op = "check_item" => \A r \in ReorderedResults : r = call.result

\* C12 amended: status, confidence and issue are the same for every ordering
\* of the keywords, and evidence text is present for one ordering exactly
\* when it is for every other
C12_VerdictOrderFree ==
    call.op = "check_item" =>
        \A r \in ReorderedResults :
            /\ r.status = call.result.status
            /\ r.confidence = call.result.confidence
            /\ r.issue = call.result.issue
            /\ (r.found_text = NONE) <=> (call.result.found_text = NONE)

\* a passing item whose evidence text depends on the order of its keywords
C12_Witness ==
    /\ call.op = "check_item"
    /\ call.result.status = "pass"
    /\ Len(ExtractKeywords(call.item.description)) >= 3
    /\ \E r \in ReorderedResults : r.found_text # call.result.found_text

(***************************************************************************)
(* DocumentProcessor (services/document_processor.py).                     *)
(* A document's text is a string; the lines of it are split at "\n".       *)
(***************************************************************************)
\* content.split('\n'): the pieces between the newlines, at least one
RECURSIVE SplitLines(_)
SplitLines(s) ==
    IF ~Contains(s, "\n") THEN <<s>>
    ELSE LET i == Find(s, "\n")
         IN  <<SubSeq(s, 1, i)>> \o SplitLines(SubSeq(s, i + 2, Len(s)))

\* '\n'.join(lines)
RECURSIVE JoinLines(_)
JoinLines(lines) ==
    IF lines = <<>> THEN ""
    ELSE IF Len(lines) = 1 THEN lines[1]
    ELSE lines[1] \o "\n" \o JoinLines(Tail(lines))

UpperOf == [c \in CharsOf(LowerCase) |->
              Chr(UpperCase, CHOOSE i \in 1..26 : Chr(LowerCase, i) = c)]

\* str.title: a letter after a letter is lower-cased, any other letter is
\* upper-cased
TitleChar(s, i) ==
    LET c == Chr(s, i)
    IN  IF i > 1 /\ IsLetter(Chr(s, i - 1))
        THEN LowerChar(c)
        ELSE IF c \in CharsOf(LowerCase) THEN UpperOf[c] ELSE c

RECURSIVE TitleFrom(_, _, _)
TitleFrom(s, i, j) ==
    IF i > j THEN ""
    ELSE IF i = j THEN TitleChar(s, i)
    ELSE LET h == (i + j) \div 2
         IN  TitleFrom(s, i, h) \o TitleFrom(s, h + 1, j)

TitleCase(s) == TitleFrom(s, 1, Len(s))

\* the words of a stripped line: the runs of non-whitespace characters
RECURSIVE Tokens(_)
Tokens(s) ==
    LET t == Strip(s)
        gaps == {i \in 1..Len(t) : Chr(t, i) \in Whitespace}
    IN  IF t = "" THEN <<>>
        ELSE IF gaps = {} THEN <<t>>
        ELSE LET g == CHOOSE i \in gaps : \A j \in gaps : i <= j
             IN  <<SubSeq(t, 1, g - 1)>> \o Tokens(SubSeq(t, g + 1, Len(t)))

\* section_patterns of _segment_sections: each '^(a|b)$' is the set of the
\* lines it matches, a line being its words (\s+ between them); "methods?"
\* is method|methods
heading_patterns == <<
    {<<"abstract">>, <<"summary">>},
    {<<"introduction">>, <<"background">>},
    {<<"objective">>, <<"objectives">>, <<"aim">>, <<"aims">>},
    {<<"method">>, <<"methods">>, <<"methodology">>},
    {<<"study", "design">>},
    {<<"participant">>, <<"participants">>, <<"subject">>, <<"subjects">>,
     <<"population">>},
    {<<"eligibility", "criteria">>, <<"inclusion", "criteria">>,
     <<"exclusion", "criteria">>},
    {<<"intervention">>, <<"interventions">>, <<"treatment">>, <<"treatments">>},
    {<<"outcome">>, <<"outcomes">>, <<"endpoint">>, <<"endpoints">>},
    {<<"sample", "size">>, <<"statistical", "analysis">>},
    {<<"data", "collection">>, <<"data", "management">>},
    {<<"ethic">>, <<"ethics">>, <<"ethical", "considerations">>},
    {<<"discussion">>, <<"limitations">>},
    {<<"conclusion">>, <<"conclusions">>},
    {<<"reference">>, <<"references">>, <<"bibliography">>} >>

\* re.match(pattern, line_stripped.lower()) for some pattern of the list
NamedHeading(line_stripped) ==
    \E p \in 1..Len(heading_patterns) :
        Tokens(Lower(line_stripped)) \in heading_patterns[p]

\* the length of the match of ^\d+\.?\s+ at the start of the line, 0 for none
NumberPrefix(line_stripped) ==
    LET n == Len(line_stripped)
        IsDigit(i) == i <= n /\ Chr(line_stripped, i) \in CharsOf(Digits)
        IsSpace(i) == i <= n /\ Chr(line_stripped, i) \in Whitespace
        d == CHOOSE k \in 0..n :
                /\ \A i \in 1..k : IsDigit(i)
                /\ ~IsDigit(k + 1)
        dot == IF d + 1 <= n /\ Chr(line_stripped, d + 1) = "." THEN d + 1 ELSE d
        w == CHOOSE k \in dot..n :
                /\ \A i \in (dot + 1)..k : IsSpace(i)
                /\ ~IsSpace(k + 1)
    IN  IF d >= 1 /\ w > dot THEN w ELSE 0

\* re.match(r'^\d+\.?\s+[A-Z]', line_stripped)
NumberedHeading(line_stripped) ==
    /\ NumberPrefix(line_stripped) > 0
    /\ NumberPrefix(line_stripped) < Len(line_stripped)
    /\ Chr(line_stripped, NumberPrefix(line_stripped) + 1) \in UpperSet

(***************************************************************************)
(* DocumentProcessor._segment_sections                                     *)
(* The loop's state: sections (a dict), current_section, current_content.  *)
(***************************************************************************)
DEFAULT_SECTION == "Introduction"

\* "if current_content: sections[current_section] = '\n'.join(..).strip()",
\* with the strip left out
Flush_NoStrip(st) ==
    IF st.current_content # <<>>
    THEN DictSet(st.sections, st.current_section, JoinLines(st.current_content))
    ELSE st.sections

\* the section saved whether or not a line was accumulated for it
Flush_Always(st) ==
    DictSet(st.sections, st.current_section, Strip(JoinLines(st.current_content)))

\* "if current_content: sections[current_section] = '\n'.join(..).strip()"
Flush(st) ==
    IF st.current_content # <<>>
    THEN DictSet(st.sections, st.current_section,
                 Strip(JoinLines(st.current_content)))
    ELSE st.sections

\* the key of a numbered heading: re.sub(r'^\d+\.?\s+', '', line_stripped)
NumberedKey(line_stripped) ==
    SubSeq(line_stripped, NumberPrefix(line_stripped) + 1, Len(line_stripped))

\* a heading line: the section before it is saved, a new one started
StartSection(st, key) ==
    [sections |-> Flush(st), current_section |-> key, current_content |-> <<>>]

\* the heading line kept as the first line of the section it starts
SegmentStep_KeepHeading(st, line, line_stripped) ==
    IF NamedHeading(line_stripped)
    THEN [sections |-> Flush(st), current_section |-> TitleCase(line_stripped),
          current_content |-> <<line>>]
    ELSE IF NumberedHeading(line_stripped)
    THEN [sections |-> Flush(st), current_section |-> NumberedKey(line_stripped),
          current_content |-> <<line>>]
    ELSE [st EXCEPT !.current_content = Append(@, line)]

\* one turn of "for line in lines"
SegmentStep(st, line, line_stripped) ==
    IF NamedHeading(line_stripped)
    THEN StartSection(st, TitleCase(line_stripped))
    ELSE IF NumberedHeading(line_stripped)
    THEN StartSection(st, NumberedKey(line_stripped))
    ELSE [st EXCEPT !.current_content = Append(@, line)]

RECURSIVE SegmentLoop(_, _)
SegmentLoop(lines, i) ==
    IF i = 0
    THEN [sections |-> <<>>, current_section |-> DEFAULT_SECTION,
          current_content |-> <<>>]
    ELSE SegmentStep(SegmentLoop(lines, i - 1), lines[i], Strip(lines[i]))

\* the filter that removes the empty sections left out
RemoveEmpty_KeepAll(sections) == sections

\* {k: v for k, v in sections.items() if v.strip()}
RemoveEmpty(sections) ==
    SelectSeq(sections, LAMBDA e : Strip(e.content) # "")

SegmentLines(lines) == RemoveEmpty(Flush(SegmentLoop(lines, Len(lines))))

SegmentSections(content) == SegmentLines(SplitLines(content))

(***************************************************************************)
(* DocumentProcessor._extract_title                                        *)
(***************************************************************************)
TITLE_SCAN_LINES == 10     \* lines[:10]
TITLE_MAX_LEN == 200       \* len(line) < 200
SUBSTANTIAL_LEN == 10      \* len(line) > 10
TITLE_TRUNCATE == 100      \* line[:100] + "..."

TITLE_KEYWORDS == <<"trial", "study", "protocol", "research">>
UNTITLED == "Untitled Protocol"

\* any(keyword in line.lower() for keyword in [...])
LooksLikeTitle(line) == AnyIn(TITLE_KEYWORDS, Lower(line))

\* the test of the first loop with the keyword test alone
TitleCandidate_KeywordOnly(line) ==
    /\ line # ""
    /\ Len(line) < TITLE_MAX_LEN
    /\ LooksLikeTitle(line)

\* a stripped line the first loop returns
TitleCandidate(line) ==
    /\ line # ""
    /\ Len(line) < TITLE_MAX_LEN
    /\ (LooksLikeTitle(line) \/ Len(line) > SUBSTANTIAL_LEN)

\* the fallback: the first non-empty line, cut to 100 characters
FirstNonEmpty(stripped) ==
    LET nonempty == {i \in 1..Len(stripped) : stripped[i] # ""}
    IN  IF nonempty = {} THEN UNTITLED
        ELSE LET line == stripped[CHOOSE i \in nonempty : \A j \in nonempty : i <= j]
             IN  IF Len(line) > TITLE_TRUNCATE
                 THEN SubSeq(line, 1, TITLE_TRUNCATE) \o "..."
                 ELSE line

\* stripped: the lines of the content, each stripped
TitleOfLines(stripped) ==
    LET hits == {i \in 1..Min(TITLE_SCAN_LINES, Len(stripped)) :
                    TitleCandidate(stripped[i])}
    IN  IF hits # {}
        THEN stripped[CHOOSE i \in hits : \A j \in hits : i <= j]
        ELSE FirstNonEmpty(stripped)

StripAll(lines) == [i \in 1..Len(lines) |-> Strip(lines[i])]

ExtractTitle(content) == TitleOfLines(StripAll(SplitLines(content)))

(***************************************************************************)
(* DocumentProcessor.process_document                                      *)
(* What reading the file gives is an input: [ok |-> TRUE, content |-> c]   *)
(* or [ok |-> FALSE, cause |-> e], the extractor's exception.              *)
(***************************************************************************)
\* the 1-based positions of character c in s
PositionsOf(s, c) == {i \in 1..Len(s) : Chr(s, i) = c}

Last(S) == CHOOSE i \in S : \A j \in S : i >= j

\* Path(p).name: the part after the last "/"
PathName(file_path) ==
    IF PositionsOf(file_path, "/") = {} THEN file_path
    ELSE SubSeq(file_path, Last(PositionsOf(file_path, "/")) + 1, Len(file_path))

\* PurePath.suffix of a name: from the last dot on, when that dot is neither
\* the first nor the last character of the name
NameSuffix(name) ==
    IF PositionsOf(name, ".") = {} THEN ""
    ELSE IF Last(PositionsOf(name, ".")) = 1 \/ Last(PositionsOf(name, ".")) = Len(name)
    THEN ""
    ELSE SubSeq(name, Last(PositionsOf(name, ".")), Len(name))

\* Path(file_path).suffix.lower()
FileExtension(file_path) == Lower(NameSuffix(PathName(file_path)))

supported_formats == <<".pdf", ".docx", ".txt">>

\* the message of the ValueError an extractor raises for cause e
ExtractionError(file_extension, cause) ==
    (IF file_extension = ".pdf" THEN "Error extracting PDF content: "
     ELSE IF file_extension = ".docx" THEN "Error extracting DOCX content: "
     ELSE "Error reading text file: ") \o cause

\* the dict process_document returns
DocumentResult(content, file_extension) ==
    [title |-> ExtractTitle(content),
     content |-> content,
     sections |-> SegmentSections(content),
     word_count |-> Len(Tokens(content)),
     file_type |-> file_extension]

\* the file read before its format is looked at
ProcessOutcome_ReadFirst(file_extension, extraction) ==
    IF ~extraction.ok
    THEN [outcome |-> "raise", read |-> TRUE,
          error |-> ExtractionError(file_extension, extraction.cause),
          result |-> NONE]
    ELSE IF ~InSeq(file_extension, supported_formats)
    THEN [outcome |-> "raise", read |-> TRUE,
          error |-> "Unsupported file format: " \o file_extension, result |-> NONE]
    ELSE [outcome |-> "return", read |-> TRUE, error |-> "",
          result |-> Some(DocumentResult(extraction.content, file_extension))]

\* the outcome of the call for a file extension: read says whether an
\* extractor was called
ProcessOutcome(file_extension, extraction) ==
    IF ~InSeq(file_extension, supported_formats)
    THEN [outcome |-> "raise", read |-> FALSE,
          error |-> "Unsupported file format: " \o file_extension, result |-> NONE]
    ELSE IF ~extraction.ok
    THEN [outcome |-> "raise", read |-> TRUE,
          error |-> ExtractionError(file_extension, extraction.cause),
          result |-> NONE]
    ELSE [outcome |-> "return", read |-> TRUE, error |-> "",
          result |-> Some(DocumentResult(extraction.content, file_extension))]

ProcessDocument(file_path, extraction) ==
    ProcessOutcome(FileExtension(file_path), extraction)

(***************************************************************************)
(* The documents the model draws from, and the document processor's calls. *)
(***************************************************************************)
MaxLines == 4        \* most lines of a document given to the segmenter
MaxTitleLines == 2   \* most lines after the leading blank lines, for the title

LinePool == {"", "Introduction", "  METHODS ", "2. Methods", "study  design",
             "  Body text of the trial."}

\* the sequences of 1..n lines of the pool
RECURSIVE LineSeqs(_, _)
LineSeqs(pool, n) ==
    IF n = 0 THEN {}
    ELSE {<<l>> : l \in pool}
         \cup {Append(ls, l) : ls \in LineSeqs(pool, n - 1), l \in pool}

Documents == {JoinLines(ls) : ls \in LineSeqs(LinePool, MaxLines)}

RECURSIVE Repeat(_, _)
Repeat(s, n) == IF n = 0 THEN "" ELSE s \o Repeat(s, n - 1)

L_LONG == Repeat("0123456789 ", 12)       \* 131 characters after the strip
L_HUGE == Repeat("0123456789 ", 20)       \* 219 characters after the strip
L_HUGE_TRIAL == "Trial " \o L_HUGE

TitleLinePool == {"  ", "Short", "Trial", "A long first line", "The STUDY of X",
                  L_LONG, L_HUGE, L_HUGE_TRIAL}

\* 0, 9, 10 or 11 blank lines, then at most MaxTitleLines lines of the pool
TitleDocuments ==
    {""} \cup {Repeat(" \n", k) \o JoinLines(ls) :
                k \in {0, 9, 10, 11}, ls \in LineSeqs(TitleLinePool, MaxTitleLines)}

Paths == {"protocol.txt", "PROTOCOL.TXT", "uploads/trial.pdf", "v1.2/notes.Docx",
          "test.xyz", "README", ".txt", "archive.tar.gz", "file.", "a.txt/b"}

Extractions ==
    {[ok |-> TRUE, content |-> c] :
        c \in {"", "Methods\nBody text of the trial.", "A Study\n\nIntroduction\nx"}}
    \cup {[ok |-> FALSE, cause |-> e] :
            e \in {"[Errno 2] No such file or directory", "invalid start byte"}}

InitDocument ==
    /\ consort_guidelines = DEFAULT_CONSORT
    /\ spirit_guidelines = DEFAULT_SPIRIT
    /\ hashseed = 0
    /\ call = IDLE
    /\ NoLLM
    /\ NoAPI

SegmentSectionsCall ==
    /\ call = IDLE
    /\ \E content \in Documents :
          call' = [op |-> "segment_sections", content |-> content,
                   result |-> SegmentSections(content)]
    /\ UNCHANGED <<consort_guidelines, spirit_guidelines, hashseed,
                   settings, MOCK_PROTOCOLS, tasks, upstream_calls, api>>

ExtractTitleCall ==
    /\ call = IDLE
    /\ \E content \in TitleDocuments :
          call' = [op |-> "extract_title", content |-> content,
                   result |-> ExtractTitle(content)]
    /\ UNCHANGED <<consort_guidelines, spirit_guidelines, hashseed,
                   settings, MOCK_PROTOCOLS, tasks, upstream_calls, api>>

ProcessDocumentCall ==
    /\ call = IDLE
    /\ \E file_path \in Paths, extraction \in Extractions :
          call' = [op |-> "process_document", file_path |-> file_path,
                   extraction |-> extraction]
                  @@ ProcessDocument(file_path, extraction)
    /\ UNCHANGED <<consort_guidelines, spirit_guidelines, hashseed,
                   settings, MOCK_PROTOCOLS, tasks, upstream_calls, api>>

NextDocument ==
    \/ SegmentSectionsCall
    \/ ExtractTitleCall
    \/ ProcessDocumentCall
    \/ Return

SpecDocument == InitDocument /\ [][NextDocument]_vars

(***************************************************************************)
(* C13: segmenting a document that contains no heading-like line yields    *)
(* exactly one section, labeled "Introduction", containing the entire      *)
(* input.                                                                  *)
(***************************************************************************)
IsHeading(line) == NamedHeading(Strip(line)) \/ NumberedHeading(Strip(line))

HeadingLines(content) ==
    {i \in 1..Len(SplitLines(content)) : IsHeading(SplitLines(content)[i])}

\* C13 as stated: one "Introduction" section holding the whole input
C13_Original ==
    call.op = "segment_sections" /\ HeadingLines(call.content) = {} =>
        call.result = <<[name |-> "Introduction", content |-> call.content]>>

\* C13 amended: the one section holds the input stripped of the whitespace
\* around it, and a document of whitespace alone yields no section
C13_SingleIntroduction ==
    call.op = "segment_sections" /\ HeadingLines(call.content) = {} =>
        IF Strip(call.content) = ""
        THEN call.result = <<>>
        ELSE call.result =
                <<[name |-> "Introduction", content |-> Strip(call.content)]>>

\* a document of several lines, none a heading, with whitespace around its text
C13_Witness ==
    /\ call.op = "segment_sections"
    /\ HeadingLines(call.content) = {}
    /\ Len(SplitLines(call.content)) >= 3
    /\ Strip(call.content) # call.content
    /\ Len(call.result) = 1

(***************************************************************************)
(* C14: text made of a recognised heading line, a non-empty body, a        *)
(* different recognised heading line and a non-empty body yields exactly   *)
(* two sections keyed by the title-cased headings, each mapped to its own  *)
(* body, and no heading line appears in a section body.                    *)
(***************************************************************************)
\* the section key a heading line gives
HeadingKey(line) ==
    IF NamedHeading(Strip(line)) THEN TitleCase(Strip(line))
    ELSE NumberedKey(Strip(line))

CallLines == SplitLines(call.content)

\* the line of the second heading, when the document is heading, body,
\* heading, body; 0 otherwise
SecondHeading ==
    IF /\ call.op = "segment_sections"
       /\ Cardinality(HeadingLines(call.content)) = 2
       /\ 1 \in HeadingLines(call.content)
    THEN CHOOSE k \in HeadingLines(call.content) : k # 1
    ELSE 0

FirstBody == JoinLines(SubSeq(CallLines, 2, SecondHeading - 1))
SecondBody == JoinLines(SubSeq(CallLines, SecondHeading + 1, Len(CallLines)))

HeadingBodyTwice ==
    /\ SecondHeading > 2
    /\ SecondHeading < Len(CallLines)
    /\ CallLines[1] # CallLines[SecondHeading]
    /\ FirstBody # ""
    /\ SecondBody # ""

NoHeadingInBodies ==
    \A i \in 1..Len(call.result) : HeadingLines(call.result[i].content) = {}

TwoSections ==
    /\ call.result =
          <<[name |-> HeadingKey(CallLines[1]), content |-> Strip(FirstBody)],
            [name |-> HeadingKey(CallLines[SecondHeading]),
             content |-> Strip(SecondBody)]>>
    /\ NoHeadingInBodies

\* C14 as stated, for every two different heading lines and non-empty bodies
C14_Original == HeadingBodyTwice => TwoSections

\* C14 amended: the two headings give different section keys and neither
\* body is blank
C14_TwoSectionsDistinctKeys ==
    /\ HeadingBodyTwice
    /\ HeadingKey(CallLines[1]) # HeadingKey(CallLines[SecondHeading])
    /\ Strip(FirstBody) # ""
    /\ Strip(SecondBody) # ""
    => TwoSections

\* a named heading and a numbered heading, each with its body
C14_Witness ==
    /\ HeadingBodyTwice
    /\ NamedHeading(Strip(CallLines[1]))
    /\ NumberedHeading(Strip(CallLines[SecondHeading]))
    /\ Len(call.result) = 2
    /\ call.result[1].content # FirstBody

(***************************************************************************)
(* C15: no section of the mapping _segment_sections returns has a body     *)
(* that is empty after stripping; a heading followed only by blank lines,  *)
(* or immediately by another heading, produces no entry of its own.        *)
(* A segment is a heading line i with the lines up to the next heading;    *)
(* segment 0 is the text before the first heading, keyed "Introduction".   *)
(***************************************************************************)
Segments == {0} \cup HeadingLines(call.content)

SegmentEnd(i) ==
    LET later == {k \in HeadingLines(call.content) : k > i}
    IN  IF later = {} THEN Len(CallLines)
        ELSE (CHOOSE k \in later : \A m \in later : k <= m) - 1

SegmentBody(i) == SubSeq(CallLines, i + 1, SegmentEnd(i))

SegmentKey(i) == IF i = 0 THEN DEFAULT_SECTION ELSE HeadingKey(CallLines[i])

BlankSegment(i) == Strip(JoinLines(SegmentBody(i))) = ""

C15_NoEmptySections ==
    call.op = "segment_sections" =>
        /\ \A k \in 1..Len(call.result) : Strip(call.result[k].content) # ""
        /\ \A i \in HeadingLines(call.content) :
              BlankSegment(i) /\ HasKey(call.result, SegmentKey(i)) =>
                 \E j \in Segments \ {i} :
                    /\ SegmentKey(j) = SegmentKey(i)
                    /\ ~BlankSegment(j)
                    /\ \E k \in 1..Len(call.result) :
                          /\ call.result[k].name = SegmentKey(j)
                          /\ call.result[k].content = Strip(JoinLines(SegmentBody(j)))

\* a heading followed by blank lines only, in a document that has a section
C15_Witness ==
    /\ call.op = "segment_sections"
    /\ Len(call.result) >= 1
    /\ \E i \in HeadingLines(call.content) :
          /\ SegmentBody(i) # <<>>
          /\ BlankSegment(i)
          /\ ~HasKey(call.result, SegmentKey(i))

(***************************************************************************)
(* C16: title extraction applies its rules in priority order over the      *)
(* first 10 non-empty lines: the first line with a domain keyword; only if *)
(* there is none, the first line longer than 10 characters; only if that   *)
(* fails, the first non-empty line cut to 100 characters with an ellipsis; *)
(* "Untitled Protocol" only when the document has no non-empty line.       *)
(***************************************************************************)
TitleLines == StripAll(SplitLines(call.content))

First(S) == CHOOSE i \in S : \A j \in S : i <= j

NonEmptyLines == {i \in 1..Len(TitleLines) : TitleLines[i] # ""}

FirstTenNonEmpty ==
    {i \in NonEmptyLines : Cardinality({j \in NonEmptyLines : j <= i}) <= 10}

HasDomainKeyword(line) ==
    \E kw \in {"trial", "study", "protocol", "research"} : Contains(Lower(line), kw)

Truncated(line) ==
    IF Len(line) > 100 THEN SubSeq(line, 1, 100) \o "..." ELSE line

\* C16 as stated: the keyword rule over all the scanned lines first, then
\* the length rule, then the fallback
C16_Original ==
    call.op = "extract_title" =>
        LET keyworded == {i \in FirstTenNonEmpty : HasDomainKeyword(TitleLines[i])}
            long == {i \in FirstTenNonEmpty : Len(TitleLines[i]) > 10}
        IN  call.result =
              IF keyworded # {} THEN TitleLines[First(keyworded)]
              ELSE IF long # {} THEN TitleLines[First(long)]
              ELSE IF NonEmptyLines # {} THEN Truncated(TitleLines[First(NonEmptyLines)])
              ELSE "Untitled Protocol"

\* the lines the scan of the first 10 lines (blank ones counted) stops at
Eligible ==
    {i \in 1..Len(TitleLines) :
        /\ i <= 10
        /\ TitleLines[i] # ""
        /\ Len(TitleLines[i]) < 200
        /\ (HasDomainKeyword(TitleLines[i]) \/ Len(TitleLines[i]) > 10)}

\* C16 amended: one pass over the first 10 lines that returns the first line
\* under 200 characters that has a domain keyword or is longer than 10
\* characters, whichever comes first; then the fallbacks
C16_FirstEligibleLine ==
    call.op = "extract_title" =>
        /\ call.result =
              IF Eligible # {} THEN TitleLines[First(Eligible)]
              ELSE IF NonEmptyLines # {} THEN Truncated(TitleLines[First(NonEmptyLines)])
              ELSE "Untitled Protocol"
        /\ (call.result = "Untitled Protocol") <=> (NonEmptyLines = {})

\* a long line without a keyword comes before a line with one, and is returned
C16_Witness ==
    /\ call.op = "extract_title"
    /\ \E i \in Eligible :
          /\ HasDomainKeyword(TitleLines[i])
          /\ ~HasDomainKeyword(call.result)
          /\ call.result = TitleLines[First(Eligible)]

(***************************************************************************)
(* C17: process_document on a path whose lower-cased extension is not one  *)
(* of .pdf, .docx, .txt fails with ValueError 'Unsupported file format:    *)
(* <ext>' before any attempt to read the file and produces no result; for  *)
(* the three supported extensions it returns a result whose file_type is   *)
(* that extension.                                                         *)
(***************************************************************************)
LowerExtension == Lower(NameSuffix(PathName(call.file_path)))

Supported == LowerExtension \in {".pdf", ".docx", ".txt"}

UnsupportedRejected ==
    call.op = "process_document" /\ ~Supported =>
        /\ call.outcome = "raise"
        /\ call.error = "Unsupported file format: " \o LowerExtension
        /\ ~call.read
        /\ call.result = NONE

InitLLM ==
    /\ consort_guidelines = DEFAULT_CONSORT
    /\ spirit_guidelines = DEFAULT_SPIRIT
    /\ hashseed = 0
    /\ call = IDLE
    /\ settings \in Deployments
    /\ MOCK_PROTOCOLS = StoredProtocols
    /\ tasks = NoTasks
    /\ upstream_calls = 0
    /\ NoAPI

\* what comprehensive_analysis does with a stored protocol once the checker
\* has run: without a client it answers at once, with one it awaits the
\* analysis
AnalysisStarted(protocol_id, provider, compliance_results, client) ==
    IF client = NONE
    THEN [op |-> "comprehensive_analysis", protocol_id |-> protocol_id,
          provider |-> provider, pc |-> "done",
          response |-> PartialResponse(protocol_id, compliance_results)]
    ELSE [op |-> "comprehensive_analysis", protocol_id |-> protocol_id,
          provider |-> provider, pc |-> "gathering",
          compliance_results |-> compliance_results,
          missing_items |-> compliance_results.failed_items]

\* POST /{protocol_id}/comprehensive, up to the await of the analysis: the
\* 404 for an unknown id is raised inside the handler's try and leaves it as
\* status 500
ComprehensiveAnalysisRequest ==
    /\ call = IDLE
    /\ \E protocol_id \in ProtocolIds, provider \in Providers :
          IF GetProtocolById(MOCK_PROTOCOLS, protocol_id) = NONE
          THEN /\ call' = [op |-> "comprehensive_analysis",
                           protocol_id |-> protocol_id, provider |-> provider,
                           pc |-> "done",
                           response |->
                               HTTPError(500, "Comprehensive analysis failed: "
                                              \o "404: Protocol not found")]
               /\ UNCHANGED <<tasks, upstream_calls>>
          ELSE /\ call' = AnalysisStarted(
                              protocol_id, provider,
                              CheckCompliance(
                                  GetProtocolById(MOCK_PROTOCOLS, protocol_id)[1].content,
                                  Some(GetProtocolById(MOCK_PROTOCOLS,
                                                       protocol_id)[1].sections)),
                              InitializeClient(settings, ProviderOrDefault(provider)))
               /\ IF InitializeClient(settings, ProviderOrDefault(provider)) = NONE
                  THEN UNCHANGED <<tasks, upstream_calls>>
                  ELSE /\ tasks' = StartTasks(call'.missing_items)
                       /\ upstream_calls' = StartCalls(call'.missing_items)
    /\ UNCHANGED <<consort_guidelines, spirit_guidelines, hashseed, settings, MOCK_PROTOCOLS, api>>

\* AdvancedLLMAnalyzer(provider).analyze_protocol_comprehensive(..), up to
\* the await of gather: without a client it returns the fallback at once
AnalyzeProtocolComprehensiveCall ==
    /\ call = IDLE
    /\ \E provider \in Providers, missing_items \in MissingItemLists :
          IF InitializeClient(settings, ProviderOrDefault(provider)) = NONE
          THEN /\ call' = [op |-> "analyze_protocol_comprehensive",
                           provider |-> provider, missing_items |-> missing_items,
                           pc |-> "done", result |-> FallbackAnalysis]
               /\ UNCHANGED <<tasks, upstream_calls>>
          ELSE /\ call' = [op |-> "analyze_protocol_comprehensive",
                           provider |-> provider, missing_items |-> missing_items,
                           pc |-> "gathering"]
               /\ tasks' = StartTasks(missing_items)
               /\ upstream_calls' = StartCalls(missing_items)
    /\ UNCHANGED <<consort_guidelines, spirit_guidelines, hashseed, settings, MOCK_PROTOCOLS, api>>

\* the outcomes the upstream call of a task can have
OutcomesOf(t) == IF t = "missing_items" THEN ItemOutcomes ELSE Outcomes

\* the upstream call a task awaits ends, and the task runs to its next await
\* or to its end
UpstreamResponse ==
    /\ \E t \in TaskNames :
          /\ tasks[t].pc = "awaiting"
          /\ \E outcome \in OutcomesOf(t) :
                /\ tasks' = [tasks EXCEPT
                                ![t] = TaskStep(t, @, outcome, call.missing_items)]
                /\ upstream_calls' =
                      IF tasks'[t].pc = "awaiting"
                      THEN upstream_calls + 1 ELSE upstream_calls
    /\ UNCHANGED <<consort_guidelines, spirit_guidelines, hashseed, settings,
                   MOCK_PROTOCOLS, call, api>>

\* gather has the result of every task: analyze_protocol_comprehensive
\* returns, and the endpoint that awaited it builds its response
Gather ==
    /\ call # IDLE
    /\ call.pc = "gathering"
    /\ \A t \in TaskNames : tasks[t].pc \in {"done", "raised"}
    /\ call' =
          IF call.op = "comprehensive_analysis"
          THEN [op |-> call.op, protocol_id |-> call.protocol_id,
                provider |-> call.provider, pc |-> "done",
                response |->
                    CompleteResponse(
                        call.protocol_id, call.provider, call.compliance_results,
                        GatherResults(tasks, ProviderOrDefault(call.provider)))]
          ELSE [op |-> call.op, provider |-> call.provider,
                missing_items |-> call.missing_items, pc |-> "done",
                result |-> GatherResults(tasks, ProviderOrDefault(call.provider))]
    /\ UNCHANGED <<consort_guidelines, spirit_guidelines, hashseed, settings,
                   MOCK_PROTOCOLS, tasks, upstream_calls, api>>

\* the caller has the response or the result; nothing of the call is kept
ReturnLLM ==
    /\ call # IDLE
    /\ call.pc = "done"
    /\ call' = IDLE
    /\ tasks' = NoTasks
    /\ upstream_calls' = 0
    /\ UNCHANGED <<consort_guidelines, spirit_guidelines, hashseed, settings,
                   MOCK_PROTOCOLS, api>>

(***************************************************************************)
(* LLMAnalyzer (services/llm_analyzer.py): generate_suggestions makes its   *)
(* upstream calls one after the other, one for each missing item and then  *)
(* one for the general suggestions.                                        *)
(***************************************************************************)
\* LLMAnalyzer._initialize_llm: the ChatOpenAI object, or None
InitializeLlm(config) ==
    IF ~config.OPENAI_API_KEY THEN NONE
    ELSE IF config.sdk = "missing" THEN NONE
    ELSE IF config.sdk = "raises" THEN NONE
    ELSE Some([model |-> "ChatOpenAI"])

\* LLMAnalyzer._get_fallback_suggestions
FallbackSuggestions ==
    <<PyDict(<<Entry("item_id", PyStr("fallback_1")),
               Entry("type", PyStr("general")),
               Entry("section", PyStr("General")),
               Entry("issue", PyStr("LLM service unavailable")),
               Entry("explanation",
                     PyStr("AI suggestions are currently unavailable. "
                           \o "Please ensure your API key is configured.")),
               Entry("suggested_text",
                     PyStr("Review protocol against CONSORT/SPIRIT guidelines manually.")),
               Entry("confidence", PyNum(10)),
               Entry("reasoning", PyStr("Fallback suggestion - LLM not available")),
               Entry("guideline", PyStr("General"))>>)>>

\* x / 10.0 of a decoded value: defined on numbers, TypeError on the rest
Divisible(v) == v.t = "num"

Tenth(v) == PyNum(v.n \div 10)

\* LLMAnalyzer._parse_suggestion_response of well-formed JSON
ParsedSuggestion(data, missing_item) ==
    PyDict(<<Entry("item_id", PyStr(missing_item.item_id)),
             Entry("type", PyStr("missing_item")),
             Entry("section",
                   DictGet(data, "target_section", PyStr(missing_item.section))),
             Entry("issue",
                   PyStr("Missing required element: " \o missing_item.description)),
             Entry("explanation", DictGet(data, "explanation", PyStr(""))),
             Entry("suggested_text", DictGet(data, "suggested_text", PyStr(""))),
             Entry("confidence", Tenth(DictGet(data, "confidence", PyNum(500)))),
             Entry("reasoning", DictGet(data, "reasoning", PyStr(""))),
             Entry("guideline", PyStr(missing_item.guideline))>>)

\* LLMAnalyzer._parse_suggestion_response of text that is not JSON
UnparsedSuggestion(response, missing_item) ==
    PyDict(<<Entry("item_id", PyStr(missing_item.item_id)),
             Entry("type", PyStr("missing_item")),
             Entry("section", PyStr(missing_item.section)),
             Entry("issue",
                   PyStr("Missing required element: " \o missing_item.description)),
             Entry("explanation", PyStr("AI-generated suggestion")),
             Entry("suggested_text",
                   PyStr(IF response # "" THEN Prefix(response, SUGGESTED_TEXT_MAX)
                         ELSE "No suggestion available")),
             Entry("confidence", PyNum(50)),
             Entry("reasoning", PyStr("Fallback suggestion due to parsing error")),
             Entry("guideline", PyStr(missing_item.guideline))>>)

\* LLMAnalyzer._generate_item_suggestion, from the outcome of its call: every
\* exception of the call and of the parsing gives None
ItemSuggestion(outcome, missing_item) ==
    IF Raised(outcome) THEN PyNone
    ELSE IF outcome.kind = "text" THEN UnparsedSuggestion(outcome.raw, missing_item)
    ELSE IF outcome.value.t # "dict" THEN PyNone
    ELSE IF ~Divisible(DictGet(outcome.value, "confidence", PyNum(500))) THEN PyNone
    ELSE ParsedSuggestion(outcome.value, missing_item)

\* one entry of _parse_general_suggestions_response, the n-th of the list
GeneralSuggestion(item, n) ==
    PyDict(<<Entry("item_id", PyStr("general_" \o ToString(n))),
             Entry("type", DictGet(item, "type", PyStr("general"))),
             Entry("section", DictGet(item, "section", PyStr("General"))),
             Entry("issue", DictGet(item, "issue", PyStr(""))),
             Entry("explanation", DictGet(item, "issue", PyStr(""))),
             Entry("suggested_text", DictGet(item, "suggestion", PyStr(""))),
             Entry("confidence", Tenth(DictGet(item, "confidence", PyNum(500)))),
             Entry("reasoning", DictGet(item, "suggestion", PyStr(""))),
             Entry("guideline", PyStr("General"))>>)

\* one entry of _extract_suggestions_from_text, the i-th match of its pattern
ExtractedSuggestion(content, i) ==
    PyDict(<<Entry("item_id", PyStr("extracted_" \o ToString(i))),
             Entry("type", PyStr("general")),
             Entry("section", PyStr("General")),
             Entry("issue", PyStr("General improvement opportunity")),
             Entry("explanation", PyStr(Prefix(Strip(content), PROBLEM_MAX))),
             Entry("suggested_text", PyStr(Strip(content))),
             Entry("confidence", PyNum(60)),
             Entry("reasoning", PyStr("Extracted from LLM response")),
             Entry("guideline", PyStr("General"))>>)

\* LLMAnalyzer._extract_suggestions_from_text
ExtractSuggestionsFromText(outcome) ==
    Prefix([i \in 1..Len(outcome.numbered) |->
                ExtractedSuggestion(outcome.numbered[i], i)]
           \o [i \in 1..Len(outcome.bulleted) |->
                ExtractedSuggestion(outcome.bulleted[i], i)],
           ISSUE_LIMIT)

\* the entries of a decoded value that the loop of
\* _parse_general_suggestions_response can go through without an exception
Iterable(data) ==
    \/ data.t = "list"
       /\ \A i \in 1..Len(data.items) :
             /\ data.items[i].t = "dict"
             /\ Divisible(DictGet(data.items[i], "confidence", PyNum(500)))
    \/ data.t \in {"dict", "str"} /\ PyLen(data) = 0

\* LLMAnalyzer._generate_general_suggestions, from the outcome of its call
GeneralSuggestions(outcome) ==
    IF Raised(outcome) THEN <<>>
    ELSE IF outcome.kind = "text" THEN ExtractSuggestionsFromText(outcome)
    ELSE IF ~Iterable(outcome.value) THEN <<>>
    ELSE IF outcome.value.t # "list" THEN <<>>
    ELSE [i \in 1..Len(outcome.value.items) |->
             GeneralSuggestion(outcome.value.items[i], i)]

\* the loop over the missing items: outcomes[i] is the outcome of the call
\* made for missing_items[i]
RECURSIVE ItemSuggestions(_, _, _)
ItemSuggestions(missing_items, outcomes, i) ==
    IF i = 0 THEN <<>>
    ELSE AppendSuggestion(ItemSuggestions(missing_items, outcomes, i - 1),
                          ItemSuggestion(outcomes[i], missing_items[i]))

\* LLMAnalyzer.generate_suggestions: outcomes holds the outcome of each
\* upstream call it makes, in the order of the calls
GenerateSuggestions(llm, missing_items, outcomes) ==
    IF llm = NONE THEN FallbackSuggestions
    ELSE ItemSuggestions(missing_items, outcomes, Len(missing_items))
         \o GeneralSuggestions(outcomes[Len(missing_items) + 1])

\* the outcomes of the calls generate_suggestions makes for n missing items
RECURSIVE OutcomeLists(_)
OutcomeLists(n) ==
    IF n = 0 THEN {<<o>> : o \in Outcomes}
    ELSE {<<o>> \o rest : o \in ItemOutcomes, rest \in OutcomeLists(n - 1)}

LLMAnalyzerCalls(llm, missing_items) ==
    IF llm = NONE THEN {<<>>} ELSE OutcomeLists(Len(missing_items))

GenerateSuggestionsCall ==
    /\ call = IDLE
    /\ \E missing_items \in MissingItemLists :
       \E outcomes \in LLMAnalyzerCalls(InitializeLlm(settings), missing_items) :
          /\ call' = [op |-> "generate_suggestions", missing_items |-> missing_items,
                      pc |-> "done",
                      result |-> GenerateSuggestions(InitializeLlm(settings),
                                                     missing_items, outcomes)]
          /\ upstream_calls' = Len(outcomes)
    /\ UNCHANGED <<consort_guidelines, spirit_guidelines, hashseed, settings,
                   MOCK_PROTOCOLS, tasks, api>>

NextLLM ==
    \/ ComprehensiveAnalysisRequest
    \/ AnalyzeProtocolComprehensiveCall
    \/ UpstreamResponse
    \/ Gather
    \/ GenerateSuggestionsCall
    \/ ReturnLLM

\* the application: the comprehensive analysis endpoint and the two analyzers
SpecLLM == InitLLM /\ [][NextLLM]_vars

(***************************************************************************)
(* C18: the four sub-analyses of analyze_protocol_comprehensive.           *)
(***************************************************************************)
\* analyze_protocol_comprehensive, called on an analyzer with a client, has
\* returned
AnalysisReturned ==
    /\ call # IDLE
    /\ call.op = "analyze_protocol_comprehensive"
    /\ call.pc = "done"
    /\ tasks # NoTasks

\* an upstream call of the sub-analysis has failed
PartFailed(t) == \E i \in 1..Len(tasks[t].log) : Raised(tasks[t].log[i])

PartOf(result, t) ==
    IF t = "missing_items" THEN result.missing_items_analysis
    ELSE IF t = "clarity" THEN result.clarity_analysis
    ELSE IF t = "consistency" THEN result.consistency_analysis
    ELSE result.executive_summary

EmptyPart(t) == IF t = "summary" THEN PyStr("") ELSE PyList(<<>>)

\* what the outcomes of its own calls make of the i-th missing item
OwnSuggestion(i) ==
    GenerateItemSuggestion(tasks.missing_items.log[i],
                           Prefix(call.missing_items, ITEM_LIMIT)[i])

\* the value of a sub-analysis as its own upstream outcomes alone give it: the
\* suggestions of the items whose call gave one, in order; the decoded or
\* extracted issues, or no issue after a failure; the response text, or the
\* fixed text after a failure
OwnValue(t) ==
    IF t = "missing_items"
    THEN PyList(SelectSeq([i \in 1..Len(tasks[t].log) |-> OwnSuggestion(i)], Truthy))
    ELSE IF t = "summary"
    THEN IF PartFailed(t) THEN PyStr(SUMMARY_FAILED) ELSE PyStr(tasks[t].log[1].raw)
    ELSE IF PartFailed(t) THEN PyList(<<>>)
    ELSE IF tasks[t].log[1].kind = "json" THEN tasks[t].log[1].value
    ELSE ExtractAnalysisFromText(tasks[t].log[1], t)

\* C18 as stated: once analyze_protocol_comprehensive has returned, every part
\* of which an upstream call failed is empty (an empty list, the empty string
\* for the summary), and every other part has the value its own responses give
C18_Original ==
    AnalysisReturned =>
        \A t \in TaskNames :
            PartOf(call.result, t) = IF PartFailed(t) THEN EmptyPart(t) ELSE OwnValue(t)

\* C18, amended: in every interleaving each finished sub-analysis, and each
\* of the four parts of the returned result, has the value that the outcomes
\* of its own upstream calls give it, whatever happened to the other calls: a
\* failed clarity or consistency analysis is an empty list, a failed summary
\* is the fixed text, and the missing-items part leaves out the items whose
\* call failed
C18_PartsIndependent ==
    /\ (call # IDLE /\ call.pc = "gathering") =>
          \A t \in TaskNames : tasks[t].pc = "done" => tasks[t].result = OwnValue(t)
    /\ AnalysisReturned =>
          /\ \A t \in TaskNames : PartOf(call.result, t) = OwnValue(t)
          /\ call.result.provider = ProviderOrDefault(call.provider)

\* the analysis has returned after the summary call and the call for the
\* first missing item failed while the clarity call and the call for the
\* second item succeeded
C18_Witness ==
    /\ AnalysisReturned
    /\ PartFailed("summary")
    /\ ~PartFailed("clarity")
    /\ Len(tasks.missing_items.log) = 2
    /\ Raised(tasks.missing_items.log[1])
    /\ ~Raised(tasks.missing_items.log[2])
    /\ call.result.executive_summary = PyStr(SUMMARY_FAILED)
    /\ Len(call.result.missing_items_analysis.items) = 1
    /\ call.result.clarity_analysis # PyList(<<>>)

(***************************************************************************)
(* C19: no credential, no upstream call.                                   *)
(***************************************************************************)
\* the settings hold no key for the provider, or no client can be built
NoCredential(provider) ==
    \/ provider = "openai" /\ ~settings.OPENAI_API_KEY
    \/ provider = "anthropic" /\ ~settings.ANTHROPIC_API_KEY
    \/ provider \notin {"openai", "anthropic"}
    \/ settings.sdk # "ok"

ItemIds(suggestions) ==
    [i \in 1..Len(suggestions) |-> DictGet(suggestions[i], "item_id", PyNone)]

\* C19: when the settings hold no key for the selected provider, or the
\* client cannot be built, analyze_protocol_comprehensive returns at once the
\* fallback analysis, the same for every input and with provider "fallback",
\* generate_suggestions returns the one suggestion "fallback_1", the same for
\* every input, and no upstream call is made
C19_FallbackWithoutCredential ==
    /\ (/\ call # IDLE
        /\ call.op = "analyze_protocol_comprehensive"
        /\ NoCredential(ProviderOrDefault(call.provider)))
       => /\ call.pc = "done"
          /\ upstream_calls = 0
          /\ call.result = FallbackAnalysis
          /\ call.result.provider = "fallback"
    /\ (/\ call # IDLE
        /\ call.op = "generate_suggestions"
        /\ NoCredential("openai"))
       => /\ upstream_calls = 0
          /\ call.result = FallbackSuggestions
          /\ ItemIds(call.result) = <<PyStr("fallback_1")>>
    /\ (/\ call # IDLE
        /\ call.op = "comprehensive_analysis"
        /\ NoCredential(ProviderOrDefault(call.provider)))
       => upstream_calls = 0

\* the analysis of two missing items was asked of the default provider,
\* OpenAI, while only the Anthropic key is set
C19_Witness ==
    /\ call # IDLE
    /\ call.op = "analyze_protocol_comprehensive"
    /\ call.provider = NONE
    /\ settings = Config(FALSE, TRUE, "ok")
    /\ Len(call.missing_items) = 2
    /\ call.result.provider = "fallback"
    /\ upstream_calls = 0

(***************************************************************************)
(* C20: upstream outcomes and the status of the endpoint's response.       *)
(***************************************************************************)
\* the endpoint has answered a request for a protocol the store holds
StoredAnswered ==
    /\ call # IDLE
    /\ call.op = "comprehensive_analysis"
    /\ call.pc = "done"
    /\ GetProtocolById(MOCK_PROTOCOLS, call.protocol_id) # NONE

\* C20: for a stored protocol, whatever the outcome of each upstream call
\* (exception, timeout, text that is not JSON, JSON of any shape), the
\* comprehensive analysis endpoint answers with status 200
C20_UpstreamNeverFailsRequest ==
    StoredAnswered => call.response.status_code = 200

(***************************************************************************)
(* C22: guideline checklists are immutable after load: no sequence of      *)
(* check_compliance calls changes the CONSORT or SPIRIT checklist or any   *)
(* of their items, and a call repeated with equal inputs returns equal     *)
(* scores, statuses and confidences.                                       *)
(***************************************************************************)
\* the call just made, made again on the checker as the call left it, returns
\* the same result: scores, statuses, confidences and lists
RepeatedCallAgrees ==
    call.op = "check_compliance" =>
        CheckCompliance(call.content, call.sections) = call.result

\* C22: no step changes a checklist, and every call is repeatable
C22_ChecklistsImmutable ==
    /\ []RepeatedCallAgrees
    /\ [][/\ consort_guidelines' = consort_guidelines
          /\ spirit_guidelines' = spirit_guidelines]_vars

\* a call on checklists loaded from files, with sections, in which some items
\* pass and some fail
C22_Witness ==
    /\ call.op = "check_compliance"
    /\ consort_guidelines \in ConsortFiles
    /\ spirit_guidelines \in SpiritFiles
    /\ call.sections # NONE
    /\ call.result.passed_items > 0
    /\ Len(call.result.failed_items) > 0

(***************************************************************************)
(* C24: in _check_item the relevant sections are scanned in the order of   *)
(* their mapping and the scan stops at the first section that contains a   *)
(* keyword: the confidence is that section's keyword fraction, even when a *)
(* later relevant section contains more of the keywords; the whole content *)
(* is searched only if no relevant section contains a keyword.             *)
(***************************************************************************)
\* the positions, in the relevant mapping, of the sections that contain at
\* least one keyword of the item
Hits ==
    {i \in 1..Len(ItemRelevant) :
        \E j \in 1..Len(ItemKeywords) : Present(ItemRelevant[i].content, ItemKeywords[j])}

FirstHit == CHOOSE i \in Hits : \A h \in Hits : i <= h

\* the fraction of the item's keywords that occur in text
KeywordFraction(text) == Ratio(PresentCount(text, ItemKeywords), Len(ItemKeywords))

C24_FirstMatchingSection ==
    call.op = "check_item" =>
        /\ Hits # {} =>
              call.result.confidence = KeywordFraction(ItemRelevant[FirstHit].content)
        /\ Hits = {} /\ ItemKeywords # <<>> =>
              call.result.confidence = Times07(KeywordFraction(call.content))
        /\ ItemKeywords = <<>> => call.result.confidence = ZERO

\* the first relevant section with a keyword holds fewer of the keywords than
\* a later relevant section, and fewer than the whole content
C24_Witness ==
    /\ call.op = "check_item"
    /\ Hits # {}
    /\ \E later \in Hits :
          /\ later > FirstHit
          /\ PresentCount(ItemRelevant[later].content, ItemKeywords)
               > PresentCount(ItemRelevant[FirstHit].content, ItemKeywords)
    /\ call.result.confidence = KeywordFraction(ItemRelevant[FirstHit].content)

(***************************************************************************)
(* C25: in every check_compliance result the statuses partition the        *)
(* checklist: total_items = passed_items + len(failed_items) +             *)
(* len(warnings); each failed_items and warnings entry belongs to exactly  *)
(* one item result of status "fail" respectively "warning" and names the   *)
(* guideline that produced it; the CONSORT entries precede the SPIRIT      *)
(* entries, each group in checklist order.                                 *)
(***************************************************************************)
\* the positions of the results with the given status, in ascending order
RECURSIVE WithStatus(_, _, _)
WithStatus(results, status, i) ==
    IF i = 0 THEN <<>>
    ELSE IF results[i].status = status
    THEN Append(WithStatus(results, status, i - 1), i)
    ELSE WithStatus(results, status, i - 1)

\* the failed_items entries of one checklist with its results
FailedEntries(items, results, guideline) ==
    [k \in 1..Len(WithStatus(results, "fail", Len(results))) |->
        LET i == WithStatus(results, "fail", Len(results))[k]
        IN  [item_id |-> items[i].id, description |-> items[i].description,
             section |-> items[i].section, guideline |-> guideline]]

\* the warnings entries of one checklist with its results
WarningEntries(items, results, guideline) ==
    [k \in 1..Len(WithStatus(results, "warning", Len(results))) |->
        LET i == WithStatus(results, "warning", Len(results))[k]
        IN  [item_id |-> items[i].id, description |-> items[i].description,
             issue |-> results[i].issue[1], guideline |-> guideline]]

C25_StatusesPartition ==
    call.op = "check_compliance" =>
        LET consort == call.result.consort_details.items
            spirit == call.result.spirit_details.items
        IN  /\ Len(consort) = Len(consort_guidelines)
            /\ Len(spirit) = Len(spirit_guidelines)
            /\ call.result.total_items = Len(consort) + Len(spirit)
            /\ call.result.total_items =
                  call.result.passed_items + Len(call.result.failed_items)
                  + Len(call.result.warnings)
            /\ call.result.passed_items =
                  Len(WithStatus(consort, "pass", Len(consort)))
                  + Len(WithStatus(spirit, "pass", Len(spirit)))
            /\ call.result.failed_items =
                  FailedEntries(consort_guidelines, consort, "CONSORT")
                  \o FailedEntries(spirit_guidelines, spirit, "SPIRIT")
            /\ call.result.warnings =
                  WarningEntries(consort_guidelines, consort, "CONSORT")
                  \o WarningEntries(spirit_guidelines, spirit, "SPIRIT")

\* a result with passed items, and with failed items and warnings of both
\* guidelines
C25_Witness ==
    /\ call.op = "check_compliance"
    /\ call.result.passed_items > 0
    /\ \A g \in {"CONSORT", "SPIRIT"} :
          /\ \E i \in 1..Len(call.result.failed_items) :
                call.result.failed_items[i].guideline = g
          /\ \E i \in 1..Len(call.result.warnings) :
                call.result.warnings[i].guideline = g

(***************************************************************************)
(* C28: an item whose confidence comes from the whole-content fallback     *)
(* search is never classified "pass": its confidence is at most 0.7, so    *)
(* its status is "warning" or "fail"; "pass" is reached only through a     *)
(* match inside a section selected by the relevance matcher.               *)
(***************************************************************************)
\* the double c is at most a/b
AtMost(c, a, b) ==
    \/ c.num * b < a * c.den
    \/ c.num * b = a * c.den /\ c.ulp <= 0

C28_FallbackNeverPasses ==
    call.op = "check_item" =>
        /\ Hits = {} =>
              /\ AtMost(call.result.confidence, 7, 10)
              /\ call.result.status \in {"warning", "fail"}
        /\ call.result.status = "pass" =>
              /\ Hits # {}
              /\ GE(KeywordFraction(ItemRelevant[FirstHit].content), 4, 5)

\* every keyword of the item occurs in the content and none in a relevant
\* section: the confidence is 0.7 and the status "warning"
C28_Witness ==
    /\ call.op = "check_item"
    /\ Hits = {}
    /\ ItemRelevant # <<>>
    /\ ItemKeywords # <<>>
    /\ PresentCount(call.content, ItemKeywords) = Len(ItemKeywords)
    /\ call.result.confidence = Ratio(7, 10)
    /\ call.result.status = "warning"

(***************************************************************************)
(* C30: when two headings of one document produce the same section label   *)
(* (a heading "Introduction" after text that fell into the default         *)
(* "Introduction" section included), _segment_sections keeps a single      *)
(* entry for that label holding only the body accumulated after the later  *)
(* heading; the earlier body is discarded, and if the later body is blank  *)
(* the label is dropped from the result.                                   *)
(***************************************************************************)
\* the segments that produce the label: the headings with that key, and the
\* text before the first heading for "Introduction"
Producers(key) ==
    {i \in HeadingLines(call.content) : SegmentKey(i) = key}
    \cup (IF key = DEFAULT_SECTION /\ SegmentBody(0) # <<>> THEN {0} ELSE {})

DuplicatedKeys ==
    {key \in {SegmentKey(i) : i \in Segments} : Cardinality(Producers(key)) >= 2}

\* the result has exactly one entry for the key, holding the segment's body
HoldsBodyOf(key, i) ==
    /\ Cardinality({k \in 1..Len(call.result) : call.result[k].name = key}) = 1
    /\ \E k \in 1..Len(call.result) :
          /\ call.result[k].name = key
          /\ call.result[k].content = Strip(JoinLines(SegmentBody(i)))

\* what the result holds for the key when the segment i decides it
DecidedBy(key, i) ==
    IF BlankSegment(i) THEN ~HasKey(call.result, key) ELSE HoldsBodyOf(key, i)

\* C30 as stated: the later heading's body decides
C30_Original ==
    call.op = "segment_sections" =>
        \A key \in DuplicatedKeys : DecidedBy(key, Last(Producers(key)))

\* the producers of the label that are followed by at least one line before
\* the next heading or the end of the document
Filled(key) == {i \in Producers(key) : SegmentBody(i) # <<>>}

\* C30 amended: the last producer that is followed by at least one line
\* decides; a heading followed at once by another heading or by the end of
\* the document leaves the entry as it was
C30_LastFilledSegmentDecides ==
    call.op = "segment_sections" =>
        \A key \in DuplicatedKeys :
            IF Filled(key) = {} THEN ~HasKey(call.result, key)
            ELSE DecidedBy(key, Last(Filled(key)))

\* a label produced twice whose later heading ends the document: the entry
\* holds the earlier body
C30_Witness ==
    /\ call.op = "segment_sections"
    /\ \E key \in DuplicatedKeys :
          /\ SegmentBody(Last(Producers(key))) = <<>>
          /\ Filled(key) # {}
          /\ HoldsBodyOf(key, Last(Filled(key)))

(***************************************************************************)
(* C26: the comprehensive analysis endpoint, called with a protocol id     *)
(* that is not in the analysis store, responds with status 404 "Protocol   *)
(* not found", and performs no compliance check and no LLM call.           *)
(***************************************************************************)
\* the request in progress is for an id the analysis store does not hold
UnknownIdAnswered ==
    /\ call.op = "comprehensive_analysis"
    /\ call.pc = "done"
    /\ GetProtocolById(MOCK_PROTOCOLS, call.protocol_id) = NONE

\* the request ran no compliance check and made no upstream call
NothingAnalysed ==
    /\ upstream_calls = 0
    /\ tasks = NoTasks
    /\ "body" \notin DOMAIN call.response

\* C26 as stated
C26_UnknownIdIs404 ==
    UnknownIdAnswered =>
        /\ call.response = HTTPError(404, "Protocol not found")
        /\ NothingAnalysed

(***************************************************************************)
(* api/protocols.py: POST /upload.  The handler validates the file, saves  *)
(* it in settings.UPLOAD_DIR and awaits the document processor; a request  *)
(* is at "saved" while it awaits.                                          *)
(***************************************************************************)
MAX_FILE_SIZE == 52428800          \* 50 * 1024 * 1024
ALLOWED_FILE_TYPES == <<".pdf", ".docx", ".txt">>
UPLOAD_DIR == "uploads"

\* os.path.splitext(p)[1]: from the last dot of the last component on, when
\* a character other than a dot precedes it in that component
SplitExt(p) ==
    LET sep == IF PositionsOf(p, "/") = {} THEN 0 ELSE Last(PositionsOf(p, "/"))
        dot == IF PositionsOf(p, ".") = {} THEN 0 ELSE Last(PositionsOf(p, "."))
    IN  IF dot > sep /\ \E i \in (sep + 1)..(dot - 1) : Chr(p, i) # "."
        THEN SubSeq(p, dot, Len(p)) ELSE ""

\* the two checks of upload_protocol: the rejection, or NONE
ValidateUpload(filename, size) ==
    IF ~InSeq(Lower(SplitExt(filename)), ALLOWED_FILE_TYPES)
    THEN Some(HTTPError(400, "File type " \o Lower(SplitExt(filename))
                             \o " not allowed. Supported types: "
                             \o "['.pdf', '.docx', '.txt']"))
    ELSE IF size > MAX_FILE_SIZE
    THEN Some(HTTPError(400, "File size exceeds maximum allowed size of "
                             \o "52428800 bytes"))
    ELSE NONE

\* os.path.join(settings.UPLOAD_DIR, f"{datetime.now().timestamp()}_{file.filename}")
UploadPath(timestamp, filename) == UPLOAD_DIR \o "/" \o timestamp \o "_" \o filename

\* aiofiles.open(file_path, 'wb') fails when the file name names a directory
\* that does not exist; the error is raised outside the try block
SaveFails(filename) == PositionsOf(filename, "/") # {}

Upload(filename, size, file_path, processed, pc, response) ==
    [op |-> "upload_protocol", filename |-> filename, size |-> size,
     file_path |-> file_path, processed |-> processed, pc |-> pc,
     response |-> response]

\* upload_protocol up to the await of process_document
UploadReceived(filename, size, timestamp) ==
    IF ValidateUpload(filename, size) # NONE
    THEN Upload(filename, size, NONE, FALSE, "done", ValidateUpload(filename, size)[1])
    ELSE IF SaveFails(filename)
    THEN Upload(filename, size, NONE, FALSE, "done",
                HTTPError(500, "Internal Server Error"))
    ELSE Upload(filename, size, Some(UploadPath(timestamp, filename)), FALSE,
                "saved", NONE)

\* upload_protocol from the return of process_document on
UploadProcessed(upload, processed_data) ==
    IF processed_data.outcome = "raise"
    THEN [upload EXCEPT !.processed = TRUE, !.pc = "done",
             !.response = HTTPError(500, "Error processing document: "
                                         \o processed_data.error)]
    ELSE [upload EXCEPT !.processed = TRUE, !.pc = "done",
             !.response =
                [status_code |-> 200,
                 body |-> [id |-> "temp_id",
                           title |-> processed_data.result[1].title,
                           filename |-> upload.filename,
                           status |-> "processed",
                           sections_count |->
                               Len(processed_data.result[1].sections)]]]

\* the files of UPLOAD_DIR once process_document has returned or raised
UploadsAfter(files, upload, processed_data) ==
    IF processed_data.outcome = "raise" THEN files \ {upload.file_path[1]}
    ELSE files

Filenames == {"protocol.txt", "PROTOCOL.TXT", "trial.pdf", "notes.Docx", "test.xyz",
              "README", ".txt", "archive.tar.gz", "file.", "v1/notes.txt"}

FileSizes == {0, MAX_FILE_SIZE, MAX_FILE_SIZE + 1}

Timestamps == {"1736326800.25", "1736326801.5"}

\* the file saved before it is validated
UploadProtocolRequest_SaveFirst ==
    /\ call = IDLE
    /\ \E filename \in Filenames, size \in FileSizes, timestamp \in Timestamps :
          /\ call' = UploadReceived(filename, size, timestamp)
          /\ uploads' = IF SaveFails(filename) THEN uploads
                        ELSE uploads \cup {UploadPath(timestamp, filename)}
    /\ UNCHANGED <<consort_guidelines, spirit_guidelines, hashseed, settings,
                   MOCK_PROTOCOLS, tasks, upstream_calls,
                   MOCK_PROTOCOLS_STORE, requests>>

\* POST /upload arrives: the checks, then the file is written
UploadProtocolRequest ==
    /\ call = IDLE
    /\ \E filename \in Filenames, size \in FileSizes, timestamp \in Timestamps :
          /\ call' = UploadReceived(filename, size, timestamp)
          /\ uploads' = IF call'.file_path = NONE THEN uploads
                        ELSE uploads \cup {call'.file_path[1]}
    /\ UNCHANGED <<consort_guidelines, spirit_guidelines, hashseed, settings,
                   MOCK_PROTOCOLS, tasks, upstream_calls,
                   MOCK_PROTOCOLS_STORE, requests>>

\* process_document returns or raises: the response, and the clean-up
UploadProcess ==
    /\ call.op = "upload_protocol"
    /\ call.pc = "saved"
    /\ \E extraction \in Extractions :
          /\ call' = UploadProcessed(call, ProcessDocument(call.file_path[1], extraction))
          /\ uploads' = UploadsAfter(uploads, call,
                                     ProcessDocument(call.file_path[1], extraction))
    /\ UNCHANGED <<consort_guidelines, spirit_guidelines, hashseed, settings,
                   MOCK_PROTOCOLS, tasks, upstream_calls,
                   MOCK_PROTOCOLS_STORE, requests>>

\* the response is sent
UploadResponse ==
    /\ call.op = "upload_protocol"
    /\ call.pc = "done"
    /\ call' = IDLE
    /\ UNCHANGED <<consort_guidelines, spirit_guidelines, hashseed, settings,
                   MOCK_PROTOCOLS, tasks, upstream_calls, api>>

NextUpload ==
    \/ UploadProtocolRequest
    \/ UploadProcess
    \/ UploadResponse

\* the upload endpoint, with an upload directory that starts empty
SpecUpload == InitDocument /\ [][NextUpload]_vars

(***************************************************************************)
(* C21: upload_protocol rejects a file whose extension is not in the       *)
(* allowed types, or whose size exceeds the maximum, with a 400 response   *)
(* carrying an explanation, before any file is written to the upload       *)
(* directory and before the document processor is invoked; if processing   *)
(* of a saved file then fails, the saved file is removed before the 500    *)
(* response is returned.                                                   *)
(***************************************************************************)
BadUpload(filename, size) ==
    \/ Lower(SplitExt(filename)) \notin {".pdf", ".docx", ".txt"}
    \/ size > MAX_FILE_SIZE

\* the step in which a request arrives with a bad file: it is answered at
\* once with 400, nothing is written and the processor is not reached
RejectedBeforeSave ==
    (call = IDLE /\ call'.op = "upload_protocol"
     /\ BadUpload(call'.filename, call'.size)) =>
        /\ call'.pc = "done"
        /\ call'.response.status_code = 400
        /\ Len(call'.response.detail) > 0
        /\ call'.file_path = NONE
        /\ ~call'.processed
        /\ uploads' = uploads

\* the step in which the processor fails: the saved file is gone in the
\* state that holds the 500 response
RemovedBeforeFailure ==
    (call.op = "upload_protocol" /\ call.pc = "saved" /\ call'.op = "upload_protocol"
     /\ call'.response.status_code = 500) =>
        /\ call.file_path[1] \in uploads
        /\ uploads' = uploads \ {call.file_path[1]}

\* there is no other way to a 400 or to a processing failure
UploadAnswers ==
    call.op = "upload_protocol" /\ call.pc = "done" =>
        /\ call.response.status_code = 400 <=> BadUpload(call.filename, call.size)
        /\ call.response.status_code = 400 => ~call.processed /\ call.file_path = NONE
        /\ call.response.status_code = 500 /\ call.processed =>
              call.file_path[1] \notin uploads

C21_UploadValidatedThenCleaned ==
    /\ []UploadAnswers
    /\ [][RejectedBeforeSave /\ RemovedBeforeFailure]_vars

\* a saved file whose processing failed, removed, while the file of an
\* earlier upload is still in the directory
C21_Witness ==
    /\ call.op = "upload_protocol"
    /\ call.pc = "done"
    /\ call.processed
    /\ call.response.status_code = 500
    /\ call.file_path[1] \notin uploads
    /\ uploads # {}

(***************************************************************************)
(* api/protocols.py: the protocol store and its endpoints; api/analysis.py:*)
(* the import-time copy of the store and the compliance endpoint.  These   *)
(* handlers have no await: each runs to its end once it starts, and the    *)
(* requests of different clients are handled in any order.                 *)
(***************************************************************************)
\* MOCK_PROTOCOLS_STORE as protocols.py defines it, and MOCK_PROTOCOLS as
\* analysis.py defines it before the merge
PROTOCOLS_LITERAL == <<StoredProtocols[1]>>
ANALYSIS_LITERAL == <<StoredProtocols[1]>>

\* store[protocol["id"]] = protocol
StoreSet(store, protocol) ==
    IF \E i \in 1..Len(store) : store[i].id = protocol.id
    THEN [i \in 1..Len(store) |->
            IF store[i].id = protocol.id THEN protocol ELSE store[i]]
    ELSE Append(store, protocol)

\* target.update(source)
RECURSIVE StoreUpdate(_, _)
StoreUpdate(target, source) ==
    IF source = <<>> THEN target
    ELSE StoreUpdate(StoreSet(target, Head(source)), Tail(source))

StoreIds(store) == {store[i].id : i \in 1..Len(store)}

NOT_FOUND == HTTPError(404, "Protocol not found")

\* get_protocol
GetProtocol(store, protocol_id) ==
    IF protocol_id \notin StoreIds(store) THEN NOT_FOUND
    ELSE [status_code |-> 200, body |-> GetProtocolById(store, protocol_id)[1]]

\* the entry removed without looking whether it is there
DeleteProtocol_Unchecked(store, protocol_id) ==
    [store |-> SelectSeq(store, LAMBDA p : p.id # protocol_id),
     response |-> [status_code |-> 200,
                   body |-> [message |-> "Protocol deleted successfully"]]]

\* delete_protocol: the store it leaves and its response
DeleteProtocol(store, protocol_id) ==
    IF protocol_id \notin StoreIds(store)
    THEN [store |-> store, response |-> NOT_FOUND]
    ELSE [store |-> SelectSeq(store, LAMBDA p : p.id # protocol_id),
          response |-> [status_code |-> 200,
                        body |-> [message |-> "Protocol deleted successfully"]]]

\* the sample protocol of create_sample_protocol
SampleProtocol(protocol_id) ==
    Protocol(protocol_id, T_ALL, <<Section("design", T_NOTHING)>>)

\* create_sample_protocol, protocol_id being the id drawn from uuid4
CreateSampleProtocol(store, protocol_id) ==
    [store |-> StoreSet(store, SampleProtocol(protocol_id)),
     response |-> [status_code |-> 200,
                   body |-> [message |-> "Sample protocol created successfully",
                             protocol_id |-> protocol_id,
                             protocol |-> SampleProtocol(protocol_id)]]]

SAMPLE_CONTENT == "sample_content"

\* the body analyze_compliance builds from the checker's result
ComplianceBody(protocol_id, compliance_results) ==
    [protocol_id |-> protocol_id,
     compliance_score |-> compliance_results.score,
     total_items |-> compliance_results.total_items,
     passed_items |-> compliance_results.passed_items,
     failed_items |-> compliance_results.failed_items,
     warnings |-> compliance_results.warnings]

\* the endpoint looking the protocol up first
AnalyzeCompliance_Lookup(protocol_id) ==
    IF protocol_id \notin StoreIds(MOCK_PROTOCOLS_STORE) THEN NOT_FOUND
    ELSE [status_code |-> 200,
          body |-> ComplianceBody(protocol_id, CheckCompliance(SAMPLE_CONTENT, NONE))]

\* analyze_compliance: a new ComplianceChecker checks the fixed text
AnalyzeCompliance(protocol_id) ==
    [status_code |-> 200,
     body |-> ComplianceBody(protocol_id, CheckCompliance(SAMPLE_CONTENT, NONE))]

\* comprehensive_analysis in a deployment without LLM keys: the analyzer has
\* no client, so the handler reaches no await and answers in one step
ComprehensiveWithoutClient(protocol_id) ==
    IF GetProtocolById(MOCK_PROTOCOLS, protocol_id) = NONE
    THEN HTTPError(500, "Comprehensive analysis failed: 404: Protocol not found")
    ELSE PartialResponse(
             protocol_id,
             CheckCompliance(GetProtocolById(MOCK_PROTOCOLS, protocol_id)[1].content,
                             Some(GetProtocolById(MOCK_PROTOCOLS,
                                                  protocol_id)[1].sections)))

\* the ids the clients ask for
RequestIds == {"protocol_123", "protocol_0a1b2c3d"}

Requested ==
    {[op |-> op, protocol_id |-> id] :
        op \in {"get_protocol", "delete_protocol", "analyze_compliance",
                "comprehensive_analysis"},
        id \in RequestIds}
    \cup {[op |-> "create_sample_protocol", protocol_id |-> ""]}

\* a request received and not yet handled; raced says that it is a DELETE of
\* a stored id that has been waiting together with another DELETE of that id
Pending(r, raced) ==
    [op |-> r.op, protocol_id |-> r.protocol_id, pc |-> "pending", raced |-> raced,
     response |-> NONE]

\* client d waits with a DELETE of the id of r
Rival(d, r) ==
    /\ requests[d].op = "delete_protocol"
    /\ requests[d].pc = "pending"
    /\ requests[d].protocol_id = r.protocol_id

Raced(c, r) ==
    /\ r.op = "delete_protocol"
    /\ r.protocol_id \in StoreIds(MOCK_PROTOCOLS_STORE)
    /\ \E d \in Clients \ {c} : Rival(d, r)

Answered(request, response) ==
    [request EXCEPT !.pc = "done", !.response = Some(response)]

\* the application at import: analysis.py merges the protocols store into its own
InitStore ==
    /\ consort_guidelines \in {DEFAULT_CONSORT, CONSORT_ITEMS}
    /\ spirit_guidelines = DEFAULT_SPIRIT
    /\ hashseed = 0
    /\ call = IDLE
    /\ settings = NO_LLM
    /\ MOCK_PROTOCOLS_STORE = PROTOCOLS_LITERAL
    /\ MOCK_PROTOCOLS = StoreUpdate(ANALYSIS_LITERAL, PROTOCOLS_LITERAL)
    /\ tasks = NoTasks
    /\ upstream_calls = 0
    /\ requests = NoRequests
    /\ uploads = {}

ReceiveRequest ==
    /\ \E c \in Clients, r \in Requested :
          /\ requests[c] = NoRequest
          /\ requests' = [d \in Clients |->
                IF d = c THEN Pending(r, Raced(c, r))
                ELSE IF Raced(c, r) /\ Rival(d, r)
                THEN [requests[d] EXCEPT !.raced = TRUE]
                ELSE requests[d]]
    /\ UNCHANGED <<consort_guidelines, spirit_guidelines, hashseed, call, settings,
                   MOCK_PROTOCOLS, tasks, upstream_calls,
                   MOCK_PROTOCOLS_STORE, uploads>>

GetProtocolHandler ==
    /\ \E c \in Clients :
          /\ requests[c].op = "get_protocol"
          /\ requests[c].pc = "pending"
          /\ requests' = [requests EXCEPT ![c] =
                Answered(@, GetProtocol(MOCK_PROTOCOLS_STORE, @.protocol_id))]
    /\ UNCHANGED <<consort_guidelines, spirit_guidelines, hashseed, call, settings,
                   MOCK_PROTOCOLS, tasks, upstream_calls,
                   MOCK_PROTOCOLS_STORE, uploads>>

\* the DELETE also removes the entry from the analysis module's store
DeleteProtocolHandler_Shared ==
    /\ \E c \in Clients :
          /\ requests[c].op = "delete_protocol"
          /\ requests[c].pc = "pending"
          /\ requests' = [requests EXCEPT ![c] =
                Answered(@, DeleteProtocol(MOCK_PROTOCOLS_STORE, @.protocol_id).response)]
          /\ MOCK_PROTOCOLS_STORE' =
                DeleteProtocol(MOCK_PROTOCOLS_STORE, requests[c].protocol_id).store
          /\ MOCK_PROTOCOLS' =
                DeleteProtocol(MOCK_PROTOCOLS, requests[c].protocol_id).store
    /\ UNCHANGED <<consort_guidelines, spirit_guidelines, hashseed, call, settings,
                   tasks, upstream_calls, uploads>>

DeleteProtocolHandler ==
    /\ \E c \in Clients :
          /\ requests[c].op = "delete_protocol"
          /\ requests[c].pc = "pending"
          /\ requests' = [requests EXCEPT ![c] =
                Answered(@, DeleteProtocol(MOCK_PROTOCOLS_STORE, @.protocol_id).response)]
          /\ MOCK_PROTOCOLS_STORE' =
                DeleteProtocol(MOCK_PROTOCOLS_STORE, requests[c].protocol_id).store
    /\ UNCHANGED <<consort_guidelines, spirit_guidelines, hashseed, call, settings,
                   MOCK_PROTOCOLS, tasks, upstream_calls, uploads>>

CreateSampleProtocolHandler ==
    /\ \E c \in Clients, protocol_id \in SampleIds :
          /\ requests[c].op = "create_sample_protocol"
          /\ requests[c].pc = "pending"
          /\ requests' = [requests EXCEPT ![c] =
                Answered(@, CreateSampleProtocol(MOCK_PROTOCOLS_STORE,
                                                 protocol_id).response)]
          /\ MOCK_PROTOCOLS_STORE' =
                CreateSampleProtocol(MOCK_PROTOCOLS_STORE, protocol_id).store
    /\ UNCHANGED <<consort_guidelines, spirit_guidelines, hashseed, call, settings,
                   MOCK_PROTOCOLS, tasks, upstream_calls, uploads>>

AnalyzeComplianceHandler ==
    /\ \E c \in Clients :
          /\ requests[c].op = "analyze_compliance"
          /\ requests[c].pc = "pending"
          /\ requests' = [requests EXCEPT ![c] =
                Answered(@, AnalyzeCompliance(@.protocol_id))]
    /\ UNCHANGED <<consort_guidelines, spirit_guidelines, hashseed, call, settings,
                   MOCK_PROTOCOLS, tasks, upstream_calls,
                   MOCK_PROTOCOLS_STORE, uploads>>

ComprehensiveAnalysisHandler ==
    /\ \E c \in Clients :
          /\ requests[c].op = "comprehensive_analysis"
          /\ requests[c].pc = "pending"
          /\ requests' = [requests EXCEPT ![c] =
                Answered(@, ComprehensiveWithoutClient(@.protocol_id))]
    /\ UNCHANGED <<consort_guidelines, spirit_guidelines, hashseed, call, settings,
                   MOCK_PROTOCOLS, tasks, upstream_calls,
                   MOCK_PROTOCOLS_STORE, uploads>>

\* the response is sent to the client
SendResponse ==
    /\ \E c \in Clients :
          /\ requests[c].pc = "done"
          /\ requests' = [requests EXCEPT ![c] = NoRequest]
    /\ UNCHANGED <<consort_guidelines, spirit_guidelines, hashseed, call, settings,
                   MOCK_PROTOCOLS, tasks, upstream_calls,
                   MOCK_PROTOCOLS_STORE, uploads>>

NextStore ==
    \/ ReceiveRequest
    \/ GetProtocolHandler
    \/ DeleteProtocolHandler
    \/ CreateSampleProtocolHandler
    \/ AnalyzeComplianceHandler
    \/ ComprehensiveAnalysisHandler
    \/ SendResponse

\* the protocols API, the compliance endpoint and the comprehensive endpoint
\* of a deployment without LLM keys, with two clients
SpecStore == InitStore /\ [][NextStore]_vars

(***************************************************************************)
(* C23: DELETE /protocols/{id} for an id in the store removes exactly that *)
(* entry and leaves every other entry unchanged, after which GET and       *)
(* DELETE for that id return 404 until it is created again; DELETE or GET  *)
(* for an id not in the store returns 404 and leaves the store unchanged.  *)
(* Two concurrent DELETEs of the same id result in exactly one success and *)
(* one 404.                                                                *)
(***************************************************************************)
\* the step handles the request of client c
Handled(c) == requests[c].pc = "pending" /\ requests'[c].pc = "done"

StatusOfResponse(c) == requests[c].response[1].status_code

\* what a GET or DELETE does in the step that handles it
GetDeleteStep(c) ==
    (Handled(c) /\ requests[c].op \in {"get_protocol", "delete_protocol"}) =>
        LET id == requests[c].protocol_id
            before == MOCK_PROTOCOLS_STORE
            after == MOCK_PROTOCOLS_STORE'
        IN  IF id \notin StoreIds(before)
            THEN /\ requests'[c].response = Some(HTTPError(404, "Protocol not found"))
                 /\ after = before
            ELSE IF requests[c].op = "get_protocol"
            THEN /\ requests'[c].response[1].status_code = 200
                 /\ requests'[c].response[1].body.id = id
                 /\ after = before
            ELSE /\ requests'[c].response[1].status_code = 200
                 /\ StoreIds(after) = StoreIds(before) \ {id}
                 /\ \A other \in StoreIds(after) :
                       GetProtocolById(after, other) = GetProtocolById(before, other)

\* an id comes into the store only when create-sample draws it
OnlyCreated(id) ==
    (id \notin StoreIds(MOCK_PROTOCOLS_STORE) /\ id \in StoreIds(MOCK_PROTOCOLS_STORE')) =>
        \E c \in Clients :
            /\ Handled(c)
            /\ requests[c].op = "create_sample_protocol"
            /\ requests'[c].response[1].body.protocol_id = id

\* two DELETEs of one stored id that were waiting at the same time (with two
\* clients no other request is handled while both wait): one succeeded and
\* the other got 404
RacedDeletes ==
    \A c, d \in Clients :
        (/\ c # d
         /\ requests[c].op = "delete_protocol" /\ requests[c].pc = "done"
         /\ requests[d].op = "delete_protocol" /\ requests[d].pc = "done"
         /\ requests[c].protocol_id = requests[d].protocol_id
         /\ requests[c].raced /\ requests[d].raced) =>
            {StatusOfResponse(c), StatusOfResponse(d)} = {200, 404}

C23_StoreGetDelete ==
    /\ []RacedDeletes
    /\ [][/\ \A c \in Clients : GetDeleteStep(c)
          /\ \A id \in RequestIds \cup SampleIds : OnlyCreated(id)]_vars

\* both clients deleted protocol_123 at the same time: one 200, one 404, and
\* the entry created meanwhile is still stored
C23_Witness ==
    /\ \E c, d \in Clients :
          /\ requests[c].op = "delete_protocol" /\ requests[c].pc = "done"
          /\ requests[d].op = "delete_protocol" /\ requests[d].pc = "done"
          /\ requests[c].protocol_id = "protocol_123"
          /\ requests[d].protocol_id = "protocol_123"
          /\ requests[c].raced /\ requests[d].raced
          /\ StatusOfResponse(c) = 200
          /\ StatusOfResponse(d) = 404
    /\ StoreIds(MOCK_PROTOCOLS_STORE) = SampleIds

(***************************************************************************)
(* C27: the analysis module's protocol store is a copy merged once at      *)
(* import: after any sequence of create-sample and DELETE operations on    *)
(* the protocols store, the ids the analysis endpoints can find are still  *)
(* exactly those present at import, so a protocol created later is not     *)
(* found by comprehensive analysis and a protocol deleted later is still   *)
(* analysed.                                                               *)
(***************************************************************************)
\* the ids of the two module literals merged at import
ImportedIds == StoreIds(ANALYSIS_LITERAL) \cup StoreIds(PROTOCOLS_LITERAL)

\* client c has the answer of a comprehensive analysis
Analysed(c) ==
    requests[c].op = "comprehensive_analysis" /\ requests[c].pc = "done"

C27_AnalysisStoreFixedAtImport ==
    /\ StoreIds(MOCK_PROTOCOLS) = ImportedIds
    /\ \A c \in Clients :
          Analysed(c) =>
              IF requests[c].protocol_id \in ImportedIds
              THEN /\ StatusOfResponse(c) = 200
                   /\ requests[c].response[1].body.protocol_id = requests[c].protocol_id
              ELSE StatusOfResponse(c) # 200

\* protocol_123 has been deleted and a sample protocol created: the first is
\* still analysed, the second is not found
C27_Witness ==
    /\ "protocol_123" \notin StoreIds(MOCK_PROTOCOLS_STORE)
    /\ "protocol_0a1b2c3d" \in StoreIds(MOCK_PROTOCOLS_STORE)
    /\ \E c, d \in Clients :
          /\ Analysed(c) /\ requests[c].protocol_id = "protocol_123"
          /\ StatusOfResponse(c) = 200
          /\ Analysed(d) /\ requests[d].protocol_id = "protocol_0a1b2c3d"
          /\ StatusOfResponse(d) = 500

(***************************************************************************)
(* C29: the response of POST /analysis/{id}/compliance does not depend on  *)
(* the protocol id or on the contents of any protocol store: for any two   *)
(* ids, stored or not, it returns the same compliance_score, total_items,  *)
(* passed_items, failed_items and warnings, and it never returns 404.      *)
(***************************************************************************)
CheckedCompliance(c) ==
    requests[c].op = "analyze_compliance" /\ requests[c].pc = "done"

\* the five fields of a response that the claim names
ComplianceFields(body) ==
    <<body.compliance_score, body.total_items, body.passed_items,
      body.failed_items, body.warnings>>

C29_ComplianceIgnoresProtocol ==
    \A c, d \in Clients :
        CheckedCompliance(c) /\ CheckedCompliance(d) =>
            /\ StatusOfResponse(c) = 200
            /\ ComplianceFields(requests[c].response[1].body)
                 = ComplianceFields(requests[d].response[1].body)

\* two answers, one for a stored id and one for an id that is not stored,
\* with a checklist whose items the fixed text fails
C29_Witness ==
    \E c, d \in Clients :
        /\ CheckedCompliance(c) /\ CheckedCompliance(d)
        /\ requests[c].protocol_id \in StoreIds(MOCK_PROTOCOLS_STORE)
        /\ requests[d].protocol_id \notin StoreIds(MOCK_PROTOCOLS_STORE)
        /\ requests[d].protocol_id \notin StoreIds(MOCK_PROTOCOLS)
        /\ requests[c].response[1].body.total_items > 0
        /\ requests[c].response[1].body.failed_items # <<>>

====
